---- MODULE Spec2Model ----
(***************************************************************************)
(* State-machine model of the bg-color-palette-lab tools:                  *)
(*   - BucketIterator / loadBuckets / main of darkscore-select.cpp         *)
(*   - ThreadSafeQueue / ImageValidator / main of validator.cpp            *)
(*   - processImages / assignImageToGroup of grouper.cpp                   *)
(* Each tool has its own specification over the shared variable list; the  *)
(* variables of the other tools stay at their initial values.              *)
(***************************************************************************)
EXTENDS Integers, Sequences, FiniteSets, TLC

VARIABLES
    \* ---- BucketIterator (darkscore-select.cpp:151-221)
    shuffledBuckets,   \* [0..5 -> Seq(item)]
    currentIndices,    \* [0..5 -> Nat], 0-based cursor of each bucket
    lastUsedBucket,    \* -1 or 0..5
    targetBucket,      \* argument of the last getNext call
    chosenBucket,      \* bucket the last getNext call settled on
    result,            \* value the last getNext call returned (NoItem if none)
    status,            \* "constructed" | "ok" | "exhausted" : outcome of the last call
    cycle,             \* items returned by the consecutive calls on one bucket,
                       \* counted from a call that read at cursor 0
    \* ---- the scanned directory (input of validator and grouper)
    folderExists,      \* whether the input path names an existing directory
    folder,            \* the directory entries, in iteration order
    \* ---- validator (validator.cpp)
    vpc,               \* position of main / scanFolder
    imageFiles,        \* scanFolder's catalog
    m_TotalCount,
    m_queue,           \* ThreadSafeQueue::m_queue
    m_Results,
    m_ProcessedCount,
    m_NumThreads,
    workers,           \* [1..m_NumThreads -> [pc, imagePath, result]]
    spawned,           \* number of worker threads started
    joined,            \* number of worker threads joined
    popped,            \* items handed out by successful pops, in lock order
    m_ValidCount,
    m_CorruptedCount,
    vExit,             \* "running" | "exit_0" | "exit_1" | "abort" : how the process ended
    \* ---- ThreadSafeQueue used on its own
    callers,           \* the threads calling pop: position, and what the call saw
    pushCount,         \* number of push calls so far
    \* ---- validator: what main does with the corrupted files
    srcExists,         \* the scanned files still in place
    quarantine,        \* the file names in the corrupted_images folder
    choice,            \* the number read at "Choice (1/2/3)", 0 before
    response,          \* what the user gave at "(y/N)": a character, "eof", "" before
    corruptedFiles,    \* the local vector of deleteCorruptedFiles / moveCorruptedFiles
    actIndex,          \* number of corruptedFiles the loop has dealt with
    moves,             \* the renames done: [src, dest, taken]
    deleted,           \* the files fs::remove has removed
    \* ---- grouper (grouper.cpp)
    gpc,               \* position of main / processImages
    images,            \* the global vector of ImageInfo
    counter,           \* colorGroups[g].counter
    processedImages,
    hardware,          \* std::thread::hardware_concurrency()
    numThreads,
    chunkSize,
    threads,           \* the started processImageThread threads
    gT,                \* loop variable t of the spawn loop
    gJoined,           \* number of threads joined
    gExit,             \* "running" | "exit_0" | "exit_1" | "abort"
    running,           \* processImages' std::atomic<bool> running
    rpc,               \* "idle" | "check" | "tick" | "done" : position of printThread
    shown,             \* the processed count of the last render, NoRender before
    shownAfterStop,    \* whether the last render started after running = false
    cursorHidden,      \* whether Cursor::hide() is in effect on the terminal
    \* ---- grouper: printThread on its own
    pstate,            \* "idle" | "running" | "stopping" | "stopped" : the render loop
    totalImages,
    time_delta,        \* milliseconds between two renders of this run
    current,           \* processedImages as the last render read it
    prev_processed,
    speed_samples,     \* the window of rate samples, oldest first
    avg_speed,
    top_speed,
    eta,               \* remaining_time of the last render, NoEta when eta_str is empty
    prev_eta,          \* eta of the render before the last
    firstStep,         \* <<items>> of the first render, <<>> before
    steady,            \* whether every render so far saw as many new items as the first
    dropped,           \* whether the window has dropped a sample
    \* ---- the mutexes of validator and grouper
    pool,              \* "none" | "validator" | "grouper" : the pool that runs
    owner,             \* mutex -> the thread that holds it, NoOwner when free
    lpc,               \* thread -> its position
    left,              \* grouper worker -> images of its chunk still to do
    pending,           \* number of paths in the validator's work queue
    toPush,            \* number of paths scanFolder has still to push
    stopFlag,          \* grouper: running has been set to false
    \* ---- darkscore-select: main
    inputOpens,        \* whether the std::ifstream of loadBuckets opens
    inputLines,        \* the lines of the CSV file
    isLoop,            \* the flag --loop
    isDaemon,          \* the flag --daemon
    spc,               \* "start" | "load" | "select" | "enter_loop" | "loop" |
                       \* "exited" | "killed" : position of main
    invokedExit,       \* how the process the user started ended: "running" |
                       \* "exit_0" | "exit_1" | "signal"
    stdinRaw,          \* whether setNonBlockingInput(true) is in effect on the terminal
    mainBuckets,       \* main's local buckets: bucket id -> sequence of DarkScoreResult
    hour,              \* local->tm_hour read by main, -1 before
    mainTarget,        \* main's local targetBucket
    mainChosenBucket,  \* main's local chosenBucket
    mainChosen,        \* main's local chosen, NoChosen before
    sExit,             \* "running" | "exit_0" | "exit_1" | "signal" : how the
                       \* process that runs main after daemonize ended
    \* ---- grouper: createGroupFoldersMoveOrCopyFiles (grouper.cpp:533-591)
    mvpc,              \* "idle" | "start" | "loop" | "done"
    moveAction,        \* "COPY" | "MOVE"
    moveIndex,         \* number of grouped images the loops have dealt with
    outFiles,          \* the files under outputPath: <<group, filename, source path
                       \* whose content the file holds>>
    moveSrc,           \* the scanned files still in place
    moveFailed         \* whether a filesystem_error was caught

samplerVars == <<shuffledBuckets, currentIndices, lastUsedBucket,
                 targetBucket, chosenBucket, result, status, cycle>>

folderVars == <<folderExists, folder>>

validatorVars == <<vpc, imageFiles, m_TotalCount, m_queue,
                   m_Results, m_ProcessedCount, m_NumThreads, workers, spawned,
                   joined, popped, m_ValidCount, m_CorruptedCount, vExit>>

reporterVars == <<running, rpc, shown, shownAfterStop, cursorHidden>>

grouperVars == <<gpc, images, counter, processedImages, hardware, numThreads,
                 chunkSize, threads, gT, gJoined, gExit, reporterVars>>

actionVars == <<srcExists, quarantine, choice, response, corruptedFiles, actIndex, moves,
                deleted>>

selectVars == <<inputOpens, inputLines, isLoop, isDaemon, spc, invokedExit, stdinRaw,
                mainBuckets, hour, mainTarget, mainChosenBucket, mainChosen, sExit>>

queueVars == <<callers, pushCount>>

printVars == <<pstate, totalImages, time_delta, current, prev_processed, speed_samples, avg_speed,
               top_speed, eta, prev_eta, firstStep, steady, dropped>>

lockVars == <<pool, owner, lpc, left, pending, toPush, stopFlag>>

moverVars == <<mvpc, moveAction, moveIndex, outFiles, moveSrc, moveFailed>>

vars == <<samplerVars, folderVars, validatorVars, queueVars, actionVars, grouperVars,
          printVars, lockVars, moverVars, selectVars>>

----------------------------------------------------------------------------
\* Bounds of the model

\* total number of wallpapers spread over the buckets
MaxItems == 3

\* number of entries of a scanned directory
MaxFiles == 2
MaxLines == 4

\* number of lines of a CSV file read in loop or daemon mode
MaxLoopLines == 2

\* number of items pushed on a ThreadSafeQueue used on its own
MaxPush == 3

\* number of threads calling pop on it
NumCallers == 2

\* largest number of images printThread reports on
MaxTotal == 12

\* largest number of rows of a CSV file of scored rows
MaxRows == 2

\* worker threads and images of the pools whose mutexes are followed
LockWorkers == 2
LockItems == 2

\* largest catalog and largest thread count of the spawn loop on its own
MaxCatalog == 8
MaxThreads == 8

----------------------------------------------------------------------------
\* Generic helpers

Range(s) == {s[i] : i \in 1..Len(s)}

IsInjective(s) == \A i, j \in 1..Len(s) : s[i] = s[j] => i = j

\* the bijections of 1..n, for every length a bucket can have
IndexPerms ==
    [n \in 0..MaxItems |->
        {pi \in [1..n -> 1..n] : \A i, j \in 1..n : pi[i] = pi[j] => i = j}]

\* every reordering of the sequence s
Perms(s) == {[i \in 1..Len(s) |-> s[pi[i]]] : pi \in IndexPerms[Len(s)]}

Abs(x) == IF x < 0 THEN -x ELSE x

----------------------------------------------------------------------------
\* Program constants

\* number of darkness buckets
NumBuckets == 6

\* lastUsedBucket before the first call
NoBucket == -1

BucketIds == 0..(NumBuckets - 1)

NoItem == 0

----------------------------------------------------------------------------
\* BucketIterator

\* the fallback loop of getNext, from the given offset on
RECURSIVE FallbackLoop(_, _, _)
FallbackLoop(buckets, target, offset) ==
    IF buckets[target] = <<>> /\ offset < NumBuckets
    THEN LET o    == offset + 1
             up   == target + o
             down == target - o
         IN  IF up < NumBuckets /\ buckets[up] # <<>> THEN up
             ELSE IF down >= 0 /\ buckets[down] # <<>> THEN down
             ELSE FallbackLoop(buckets, target, o)
    ELSE target

\* mutant: looks at target-o before target+o
RECURSIVE FallbackLoopDownFirst(_, _, _)
FallbackLoopDownFirst(buckets, target, offset) ==
    IF buckets[target] = <<>> /\ offset < NumBuckets
    THEN LET o    == offset + 1
             up   == target + o
             down == target - o
         IN  IF down >= 0 /\ buckets[down] # <<>> THEN down
             ELSE IF up < NumBuckets /\ buckets[up] # <<>> THEN up
             ELSE FallbackLoopDownFirst(buckets, target, o)
    ELSE target

\* mutant: the search gives up after offset 3
RECURSIVE FallbackLoopShort(_, _, _)
FallbackLoopShort(buckets, target, offset) ==
    IF buckets[target] = <<>> /\ offset < 3
    THEN LET o    == offset + 1
             up   == target + o
             down == target - o
         IN  IF up < NumBuckets /\ buckets[up] # <<>> THEN up
             ELSE IF down >= 0 /\ buckets[down] # <<>> THEN down
             ELSE FallbackLoopShort(buckets, target, o)
    ELSE target

ShortSearch(buckets, target) == FallbackLoopShort(buckets, target, 0)

DownFirstSearch(buckets, target) == FallbackLoopDownFirst(buckets, target, 0)

\* chosenBucket as computed by lines 172-186
FallbackSearch(buckets, target) == FallbackLoop(buckets, target, 0)

\* mutant: a shuffle may also write the first item over all the others
ShuffleLossy(bucket) == Perms(bucket) \cup {[i \in DOMAIN bucket |-> bucket[1]]}

\* the orders std::shuffle can leave a bucket in
Shuffle(bucket) == Perms(bucket)

\* mutant: a switch keeps the cursor the bucket was left with
ReadCursorKept(b) == currentIndices[b]

\* the cursor a getNext call that chooses bucket b reads at: if the bucket
\* changed, currentIndices[chosenBucket] = 0
ReadCursor(b) == IF b # lastUsedBucket THEN 0 ELSE currentIndices[b]

\* the bucket indices the fallback search passes to shuffledBuckets[...]:
\* chosenBucket in the loop test, up when up < 6, down when down >= 0
RECURSIVE FallbackReads(_, _, _)
FallbackReads(buckets, target, offset) ==
    {target} \cup
    IF buckets[target] = <<>> /\ offset < NumBuckets
    THEN LET o    == offset + 1
             up   == target + o
             down == target - o
         IN  (IF up < NumBuckets THEN {up} ELSE {}) \cup
             IF up < NumBuckets /\ buckets[up] # <<>> THEN {}
             ELSE (IF down >= 0 THEN {down} ELSE {}) \cup
                  IF down >= 0 /\ buckets[down] # <<>> THEN {}
                  ELSE FallbackReads(buckets, target, o)
    ELSE {}

\* mutant: the cursor wraps one call late
AdvanceLate(idx, size) == IF idx + 1 > size THEN 0 ELSE idx + 1

\* currentIdx++; if (currentIdx >= size) currentIdx = 0
Advance(idx, size) == IF idx + 1 >= size THEN 0 ELSE idx + 1

\* getNext(target): fallback search, switch reshuffle, read by reference,
\* advance, wrap reshuffle, return the referenced element
getNext(target) ==
    LET chosen == FallbackSearch(shuffledBuckets, target) IN
    /\ targetBucket' = target
    /\ chosenBucket' = chosen
    /\ IF shuffledBuckets[chosen] = <<>>
       THEN \* throw std::runtime_error
            /\ status' = "exhausted"
            /\ result' = NoItem
            /\ UNCHANGED <<shuffledBuckets, currentIndices, lastUsedBucket, cycle>>
       ELSE LET switched == chosen # lastUsedBucket
                idx      == ReadCursor(chosen)
                size     == Len(shuffledBuckets[chosen])
                wrapped  == idx + 1 >= size
            IN  \E afterSwitch \in (IF switched THEN Shuffle(shuffledBuckets[chosen])
                                                ELSE {shuffledBuckets[chosen]}) :
                \E afterWrap \in (IF wrapped THEN Shuffle(afterSwitch)
                                             ELSE {afterSwitch}) :
                    /\ shuffledBuckets' = [shuffledBuckets EXCEPT ![chosen] = afterWrap]
                    /\ currentIndices' =
                           [currentIndices EXCEPT ![chosen] = Advance(idx, size)]
                    /\ lastUsedBucket' = chosen
                    \* `result` is a reference to element idx, copied at the return
                    /\ result' = afterWrap[idx + 1]
                    /\ status' = "ok"
                    /\ cycle' = IF switched \/ idx = 0
                                THEN <<afterWrap[idx + 1]>>
                                ELSE Append(cycle, afterWrap[idx + 1])

----------------------------------------------------------------------------
\* Directory entries and file names (names are sequences of characters)

Name_x_jpg  == <<"x", ".", "j", "p", "g">>
Name_y_PNG  == <<"y", ".", "P", "N", "G">>
Name_n_txt  == <<"n", ".", "t", "x", "t">>
Name_README == <<"R", "E", "A", "D", "M", "E">>
Name_z_gif  == <<"z", ".", "g", "i", "f">>
Name_x_1_jpg == <<"x", "_", "1", ".", "j", "p", "g">>

\* the entries a scanned directory is made of: decode is what cv::imread
\* does with the file ("ok": an image, "empty": an empty Mat, "throws")
\* scores: what calculateGroupScore gives for the groups 1..12, in hundredths
FilePool ==
    <<[dir |-> "a", name |-> Name_x_jpg,  regular |-> TRUE, decode |-> "ok",
       scores |-> <<30, 10, 0, 0, 0, 0, 0, 0, 0, 0, 0, 0>>],
      [dir |-> "b", name |-> Name_x_jpg,  regular |-> TRUE, decode |-> "empty",
       scores |-> <<0, 0, 0, 0, 0, 0, 0, 0, 0, 0, 0, 0>>],
      [dir |-> "a", name |-> Name_y_PNG,  regular |-> TRUE, decode |-> "throws",
       scores |-> <<0, 0, 0, 0, 0, 0, 0, 0, 0, 0, 0, 0>>],
      [dir |-> "a", name |-> Name_n_txt,  regular |-> TRUE, decode |-> "empty",
       scores |-> <<0, 0, 0, 0, 0, 0, 0, 0, 0, 0, 0, 0>>],
      [dir |-> "a", name |-> Name_README, regular |-> TRUE, decode |-> "empty",
       scores |-> <<0, 0, 0, 0, 0, 0, 0, 0, 0, 0, 0, 0>>],
      [dir |-> "b", name |-> Name_z_gif,  regular |-> TRUE, decode |-> "ok",
       scores |-> <<50, 50, 20, 0, 0, 0, 0, 0, 0, 0, 0, 0>>],
      [dir |-> "c", name |-> Name_x_jpg,  regular |-> TRUE, decode |-> "ok",
       scores |-> <<10, 29, 0, 0, 0, 0, 0, 0, 20, 0, 0, 0>>],
      [dir |-> "d", name |-> Name_x_jpg,  regular |-> TRUE, decode |-> "empty",
       scores |-> <<0, 0, 0, 0, 0, 0, 0, 0, 0, 0, 0, 0>>],
      [dir |-> "a", name |-> Name_x_1_jpg, regular |-> TRUE, decode |-> "throws",
       scores |-> <<0, 0, 0, 0, 0, 0, 0, 0, 0, 0, 0, 0>>],
      [dir |-> "e", name |-> Name_x_jpg,  regular |-> TRUE, decode |-> "ok",
       scores |-> <<60, 0, 0, 0, 0, 0, 0, 0, 0, 0, 0, 0>>]>>

\* a path is the position of its entry in FilePool
Paths == 1..Len(FilePool)

AllPaths == [i \in Paths |-> i]

\* the directories of at most MaxFiles entries among `paths`, each in
\* iteration order
Listings(paths) ==
    {SelectSeq(AllPaths, LAMBDA e : e \in chosen) :
        chosen \in {c \in SUBSET paths : Cardinality(c) <= MaxFiles}}

\* the entries the validator runs are made of
ValidatorPaths == {1, 2, 3, 4, 5}

\* the entries the runs of the validator's file actions are made of
ActionPaths == {1, 2, 8, 9}

\* the entries the grouper runs are made of
GrouperPaths == {1, 2, 3, 5, 6, 7}

\* no directory given
NoFolder == folderExists = FALSE /\ folder = <<>>

\* fs::path(imagePath).filename()
Filename(path) == FilePool[path].name

\* an empty std::string imagePath
NoFile == 0

NoResult == [filePath |-> NoFile, isValid |-> FALSE, width |-> 0, height |-> 0]

\* ::tolower on the characters of the names
ToLower(c) ==
    CASE c = "P" -> "p" [] c = "N" -> "n" [] c = "G" -> "g" [] c = "R" -> "r"
      [] c = "E" -> "e" [] c = "A" -> "a" [] c = "D" -> "d" [] c = "M" -> "m"
      [] OTHER -> c

m_supportedExtensions ==
    {<<".", "j", "p", "g">>, <<".", "j", "p", "e", "g">>, <<".", "p", "n", "g">>,
     <<".", "b", "m", "p">>, <<".", "t", "i", "f", "f">>, <<".", "t", "i", "f">>,
     <<".", "w", "e", "b", "p">>, <<".", "g", "i", "f">>}

\* std::string::npos
npos == -1

\* filename.find_last_of(".")
FindLastOf(name, c) ==
    LET hits == {i \in 1..Len(name) : name[i] = c}
    IN  IF hits = {} THEN npos ELSE CHOOSE i \in hits : \A j \in hits : j <= i

\* filename.substr(pos) throws std::out_of_range when pos > size()
SubstrThrows(name, pos) == pos = npos

Substr(name, pos) == SubSeq(name, pos, Len(name))

\* ImageValidator::isSupportedFormat: does the call throw, and its value if not
isSupportedFormatThrows(name) == SubstrThrows(name, FindLastOf(name, "."))

isSupportedFormat(name) ==
    LET extension == Substr(name, FindLastOf(name, "."))
        lowered   == [i \in 1..Len(extension) |-> ToLower(extension[i])]
    IN  lowered \in m_supportedExtensions

----------------------------------------------------------------------------
\* ThreadSafeQueue

\* mutant: push puts the item in front of the queued ones
pushFront(queue, item) == <<item>> \o queue

\* push: append under m_mutex
push(queue, item) == Append(queue, item)

\* mutant: pop returns the front and leaves it in the queue
popKeepsFront(queue) ==
    IF queue # <<>>
    THEN [found |-> TRUE, item |-> Head(queue), queue |-> queue]
    ELSE [found |-> FALSE, item |-> NoFile, queue |-> queue]

\* mutant: the wait predicate asks for more than one queued item
popNeedsTwo(queue) ==
    IF Len(queue) > 1
    THEN [found |-> TRUE, item |-> Head(queue), queue |-> Tail(queue)]
    ELSE [found |-> FALSE, item |-> NoFile, queue |-> queue]

\* mutant: the wait gives up without looking at the queue
popGivesUp(queue) == [found |-> FALSE, item |-> NoFile, queue |-> queue]

\* pop: under m_mutex, wait_for(timeout, !empty); the front is removed when
\* the predicate holds, false is returned when the wait times out on an
\* empty queue
pop(queue) ==
    IF queue # <<>>
    THEN [found |-> TRUE, item |-> Head(queue), queue |-> Tail(queue)]
    ELSE [found |-> FALSE, item |-> NoFile, queue |-> queue]

RECURSIVE PushAll(_, _)
PushAll(queue, items) ==
    IF items = <<>> THEN queue
    ELSE PushAll(push(queue, Head(items)), Tail(items))

----------------------------------------------------------------------------
\* ImageValidator

\* worker counts: hardware_concurrency() (0 when not computable), or the
\* argument of the explicit constructor
ThreadCounts == {0, 1, 2, 8}

\* validateImage: isValid only for a non-empty image; every exception caught
\* (result.filename is Filename(result.filePath))
validateImage(imagePath) ==
    [filePath |-> imagePath,
     isValid |-> FilePool[imagePath].decode = "ok",
     width |-> IF FilePool[imagePath].decode = "ok" THEN 4 ELSE 0,
     height |-> IF FilePool[imagePath].decode = "ok" THEN 3 ELSE 0]

IdleWorker == [pc |-> "unstarted", imagePath |-> NoFile, result |-> NoResult]

\* the directory iteration of scanFolder: the entries before the first
\* regular file whose name makes isSupportedFormat throw
ScanThrows(entries) ==
    \E i \in 1..Len(entries) :
        FilePool[entries[i]].regular /\ isSupportedFormatThrows(Filename(entries[i]))

ScanCatalog(entries) ==
    SelectSeq(entries, LAMBDA e : FilePool[e].regular /\ isSupportedFormat(Filename(e)))

\* scanFolder up to the start of the worker threads (lines 146-178)
ScanFolder ==
    /\ vpc = "scanFolder"
    /\ IF ~folderExists
       THEN \* filesystem_error: exit(1)
            /\ vpc' = "exited"
            /\ vExit' = "exit_1"
            /\ UNCHANGED <<imageFiles, m_TotalCount, m_queue>>
       ELSE IF ScanThrows(folder)
       THEN \* std::out_of_range is not caught: std::terminate
            /\ vpc' = "exited"
            /\ vExit' = "abort"
            /\ UNCHANGED <<imageFiles, m_TotalCount, m_queue>>
       ELSE /\ imageFiles' = ScanCatalog(folder)
            /\ m_TotalCount' = Len(ScanCatalog(folder))
            /\ IF Len(ScanCatalog(folder)) = 0
               THEN \* "No images found to validate.": return
                    /\ vpc' = "summary"
                    /\ UNCHANGED m_queue
               ELSE /\ m_queue' = PushAll(m_queue, ScanCatalog(folder))
                    /\ vpc' = "spawn"
            /\ UNCHANGED vExit
    /\ UNCHANGED <<m_Results, m_ProcessedCount, m_NumThreads,
                   workers, spawned, joined, popped, m_ValidCount, m_CorruptedCount>>

\* workers.emplace_back(...): one thread per iteration
SpawnWorker ==
    /\ vpc = "spawn"
    /\ IF spawned < m_NumThreads
       THEN /\ workers' = [workers EXCEPT ![spawned + 1].pc = "pop"]
            /\ spawned' = spawned + 1
            /\ UNCHANGED vpc
       ELSE /\ vpc' = "join"
            /\ UNCHANGED <<workers, spawned>>
    /\ UNCHANGED <<imageFiles, m_TotalCount, m_queue, m_Results,
                   m_ProcessedCount, m_NumThreads, joined, popped, m_ValidCount,
                   m_CorruptedCount, vExit>>

\* worker.join(), in the order the threads were started
JoinWorker ==
    /\ vpc = "join"
    /\ IF joined < m_NumThreads
       THEN /\ workers[joined + 1].pc = "exited"
            /\ joined' = joined + 1
            /\ UNCHANGED vpc
       ELSE /\ vpc' = "summary"
            /\ UNCHANGED joined
    /\ UNCHANGED <<imageFiles, m_TotalCount, m_queue, m_Results,
                   m_ProcessedCount, m_NumThreads, workers, spawned, popped,
                   m_ValidCount, m_CorruptedCount, vExit>>

\* workerThread: while (workQueue.pop(imagePath)), then
\* result = validateImage(imagePath), which touches no shared state
WorkerPop(w) ==
    /\ workers[w].pc = "pop"
    /\ LET r == pop(m_queue) IN
       IF r.found
       THEN /\ m_queue' = r.queue
            /\ popped' = Append(popped, r.item)
            /\ workers' = [workers EXCEPT ![w].pc = "store",
                                          ![w].imagePath = r.item,
                                          ![w].result = validateImage(r.item)]
       ELSE /\ workers' = [workers EXCEPT ![w].pc = "exited"]
            /\ UNCHANGED <<m_queue, popped>>
    /\ UNCHANGED <<vpc, imageFiles, m_TotalCount, m_Results,
                   m_ProcessedCount, m_NumThreads, spawned, joined, m_ValidCount,
                   m_CorruptedCount, vExit>>

\* m_Results.push_back(result) under m_ResultsMutex; result is dead afterwards
WorkerStore(w) ==
    /\ workers[w].pc = "store"
    /\ m_Results' = Append(m_Results, workers[w].result)
    /\ workers' = [workers EXCEPT ![w].pc = "count", ![w].result = NoResult]
    /\ UNCHANGED <<vpc, imageFiles, m_TotalCount, m_queue,
                   m_ProcessedCount, m_NumThreads, spawned, joined, popped,
                   m_ValidCount, m_CorruptedCount, vExit>>

\* int current = ++m_ProcessedCount; the locals are dead after the print
WorkerCount(w) ==
    /\ workers[w].pc = "count"
    /\ m_ProcessedCount' = m_ProcessedCount + 1
    /\ workers' = [workers EXCEPT ![w] = [IdleWorker EXCEPT !.pc = "pop"]]
    /\ UNCHANGED <<vpc, imageFiles, m_TotalCount, m_queue,
                   m_Results, m_NumThreads, spawned, joined, popped, m_ValidCount,
                   m_CorruptedCount, vExit>>

\* calcAndPrintSummary, then main: return 0 unless corrupted files were found
Summary ==
    /\ vpc = "summary"
    /\ LET valid     == Cardinality({i \in 1..Len(m_Results) : m_Results[i].isValid})
           corrupted == Cardinality({i \in 1..Len(m_Results) : ~m_Results[i].isValid})
       IN  /\ m_ValidCount' = m_ValidCount + valid
           /\ m_CorruptedCount' = m_CorruptedCount + corrupted
           /\ IF m_CorruptedCount + corrupted > 0
              THEN vpc' = "prompt" /\ UNCHANGED vExit
              ELSE vpc' = "exited" /\ vExit' = "exit_0"
    /\ UNCHANGED <<imageFiles, m_TotalCount, m_queue, m_Results,
                   m_ProcessedCount, m_NumThreads, workers, spawned, joined, popped>>

\* the validator before main runs, with no directory chosen
ValidatorIdle ==
    /\ vpc = "idle"
    /\ imageFiles = <<>>
    /\ m_TotalCount = 0
    /\ m_queue = <<>>
    /\ m_Results = <<>>
    /\ m_ProcessedCount = 0
    /\ m_NumThreads = 0
    /\ workers = <<>>
    /\ spawned = 0
    /\ joined = 0
    /\ popped = <<>>
    /\ m_ValidCount = 0
    /\ m_CorruptedCount = 0
    /\ vExit = "running"

\* main up to validator.scanFolder(inputFolder)
InitValidator ==
    /\ folderExists \in BOOLEAN
    /\ folder \in Listings(ValidatorPaths)
    /\ (~folderExists => folder = <<>>)
    /\ m_NumThreads \in ThreadCounts
    /\ vpc = "scanFolder"
    /\ imageFiles = <<>>
    /\ m_TotalCount = 0
    /\ m_queue = <<>>
    /\ m_Results = <<>>
    /\ m_ProcessedCount = 0
    /\ workers = [w \in 1..m_NumThreads |-> IdleWorker]
    /\ spawned = 0
    /\ joined = 0
    /\ popped = <<>>
    /\ m_ValidCount = 0
    /\ m_CorruptedCount = 0
    /\ vExit = "running"

----------------------------------------------------------------------------
\* ThreadSafeQueue on its own: push calls and pop calls in any order

IdleCaller == [pc |-> "idle", found |-> FALSE, item |-> NoFile,
               sawEmpty |-> FALSE, sawFront |-> NoFile, waited |-> FALSE]

\* what a pop call that ends now returns, with the queue it saw
Returned(caller, queue, waited) ==
    LET r == pop(queue) IN
    [pc |-> "returned", found |-> r.found, item |-> r.item,
     sawEmpty |-> queue = <<>>,
     sawFront |-> IF queue = <<>> THEN NoFile ELSE Head(queue),
     waited |-> waited]

\* push: the item is appended under m_mutex, notify_one
QPush ==
    /\ pushCount < MaxPush
    /\ m_queue' = push(m_queue, pushCount + 1)
    /\ pushCount' = pushCount + 1
    /\ UNCHANGED <<callers, popped>>

\* pop is called: the lock is taken and the predicate evaluated; the call
\* returns the front when the queue is not empty and blocks otherwise
QPopCall(c) ==
    /\ callers[c].pc = "idle"
    /\ IF pop(m_queue).found
       THEN /\ callers' = [callers EXCEPT ![c] = Returned(@, m_queue, FALSE)]
            /\ m_queue' = pop(m_queue).queue
            /\ popped' = Append(popped, pop(m_queue).item)
       ELSE /\ callers' = [callers EXCEPT ![c].pc = "waiting"]
            /\ UNCHANGED <<m_queue, popped>>
    /\ UNCHANGED pushCount

\* a blocked call is woken before the timeout, finds the predicate true and
\* returns the front
QWake(c) ==
    /\ callers[c].pc = "waiting"
    /\ pop(m_queue).found
    /\ callers' = [callers EXCEPT ![c] = Returned(@, m_queue, TRUE)]
    /\ m_queue' = pop(m_queue).queue
    /\ popped' = Append(popped, pop(m_queue).item)
    /\ UNCHANGED pushCount

\* the timeout of a blocked call expires: wait_for returns the value of the
\* predicate
QTimeout(c) ==
    /\ callers[c].pc = "waiting"
    /\ callers' = [callers EXCEPT ![c] = Returned(@, m_queue, TRUE)]
    /\ m_queue' = pop(m_queue).queue
    /\ popped' = IF pop(m_queue).found THEN Append(popped, pop(m_queue).item) ELSE popped
    /\ UNCHANGED pushCount

\* the caller goes on to its next pop call
QAgain(c) ==
    /\ callers[c].pc = "returned"
    /\ callers' = [callers EXCEPT ![c] = IdleCaller]
    /\ UNCHANGED <<m_queue, popped, pushCount>>

\* no ThreadSafeQueue is used on its own
QueueIdle == callers = <<>> /\ pushCount = 0

InitQueue ==
    /\ callers = [c \in 1..NumCallers |-> IdleCaller]
    /\ pushCount = 0

----------------------------------------------------------------------------
\* validator: main's switch, deleteCorruptedFiles and moveCorruptedFiles

\* fs::path::stem and fs::path::extension of a file name: the extension
\* starts at the last dot, unless that dot is the first character
ExtensionStart(name) ==
    LET dot == FindLastOf(name, ".")
    IN  IF dot = npos \/ dot = 1 THEN Len(name) + 1 ELSE dot

Stem(name) == SubSeq(name, 1, ExtensionStart(name) - 1)

Extension(name) == SubSeq(name, ExtensionStart(name), Len(name))

Digits == <<"0", "1", "2", "3", "4", "5", "6", "7", "8", "9">>

\* std::to_string of a non-negative int
RECURSIVE to_string(_)
to_string(n) ==
    IF n < 10 THEN <<Digits[n + 1]>>
    ELSE to_string(n \div 10) \o <<Digits[(n % 10) + 1]>>

\* mutant: the destination is the file name, whatever the folder holds
DestPathNoCheck(taken, name, destName, n) == destName

\* the loop "while (fs::exists(destPath))" of lines 325-331: the first name
\* among destName, stem_n, stem_n+1, ... the folder does not hold
RECURSIVE DestPath(_, _, _, _)
DestPath(taken, name, destName, n) ==
    IF destName \in taken
    THEN DestPath(taken, name, Stem(name) \o <<"_">> \o to_string(n) \o Extension(name),
                  n + 1)
    ELSE destName

\* the paths of the results that are not valid, in the order of m_Results
CorruptedOf(results) ==
    LET bad == SelectSeq(results, LAMBDA r : ~r.isValid)
    IN  [i \in 1..Len(bad) |-> bad[i].filePath]

\* main: std::cin >> choice; switch (choice)
ChooseAction ==
    /\ vpc = "prompt"
    /\ \E c \in {1, 2, 3, 4} :
          /\ choice' = c
          /\ IF c = 1 THEN vpc' = "deleteCorruptedFiles" /\ UNCHANGED vExit
             ELSE IF c = 2 THEN vpc' = "moveCorruptedFiles" /\ UNCHANGED vExit
             ELSE vpc' = "exited" /\ vExit' = "exit_0"
    /\ UNCHANGED <<imageFiles, m_TotalCount, m_queue, m_Results, m_ProcessedCount,
                   m_NumThreads, workers, spawned, joined, popped, m_ValidCount,
                   m_CorruptedCount>>
    /\ UNCHANGED <<srcExists, quarantine, response, corruptedFiles, actIndex, moves, deleted>>

\* what the user gives at the "(y/N)" prompt: a character, or nothing when
\* the input has ended
Answers == {"y", "Y", "n", "eof"}

\* the value of `response` after std::cin >> response: the character typed;
\* when the extraction fails the char declared without an initialiser at
\* line 271 keeps its indeterminate value ("y" for 'y' or 'Y', "n" for any
\* other)
ResponseRead(typed) == IF typed = "eof" THEN {"y", "n"} ELSE {typed}

\* deleteCorruptedFiles up to its loop: the list and the confirmation
DeleteBegin ==
    /\ vpc = "deleteCorruptedFiles"
    /\ corruptedFiles' = CorruptedOf(m_Results)
    /\ IF CorruptedOf(m_Results) = <<>>
       THEN \* "No corrupted files to delete.": return
            /\ vpc' = "exited" /\ vExit' = "exit_0"
            /\ UNCHANGED response
       ELSE \E typed \in Answers :
               /\ response' = typed
               /\ \E read \in ResponseRead(typed) :
                     IF read \in {"y", "Y"}
                     THEN vpc' = "deleteLoop" /\ UNCHANGED vExit
                     ELSE vpc' = "exited" /\ vExit' = "exit_0"
    /\ UNCHANGED <<imageFiles, m_TotalCount, m_queue, m_Results, m_ProcessedCount,
                   m_NumThreads, workers, spawned, joined, popped, m_ValidCount,
                   m_CorruptedCount>>
    /\ UNCHANGED <<srcExists, quarantine, choice, actIndex, moves, deleted>>

\* one iteration of the delete loop: fs::remove returns true, returns false
\* (no such file), or throws filesystem_error, which is caught
DeleteOne ==
    /\ vpc = "deleteLoop"
    /\ IF actIndex < Len(corruptedFiles)
       THEN LET file == corruptedFiles[actIndex + 1] IN
            /\ \E outcome \in {"removed", "error"} :
                  IF outcome = "removed" /\ file \in srcExists
                  THEN /\ srcExists' = srcExists \ {file}
                       /\ deleted' = deleted \cup {file}
                  ELSE UNCHANGED <<srcExists, deleted>>
            /\ actIndex' = actIndex + 1
            /\ UNCHANGED <<vpc, vExit>>
       ELSE /\ vpc' = "exited"
            /\ vExit' = "exit_0"
            /\ UNCHANGED <<srcExists, deleted, actIndex>>
    /\ UNCHANGED <<imageFiles, m_TotalCount, m_queue, m_Results, m_ProcessedCount,
                   m_NumThreads, workers, spawned, joined, popped, m_ValidCount,
                   m_CorruptedCount>>
    /\ UNCHANGED <<quarantine, choice, response, corruptedFiles, moves>>

\* moveCorruptedFiles up to its loop: the list and fs::create_directories,
\* whose filesystem_error ends the function
MoveBegin ==
    /\ vpc = "moveCorruptedFiles"
    /\ corruptedFiles' = CorruptedOf(m_Results)
    /\ \E created \in BOOLEAN :
          IF CorruptedOf(m_Results) # <<>> /\ created
          THEN vpc' = "moveLoop" /\ UNCHANGED vExit
          ELSE vpc' = "exited" /\ vExit' = "exit_0"
    /\ UNCHANGED <<imageFiles, m_TotalCount, m_queue, m_Results, m_ProcessedCount,
                   m_NumThreads, workers, spawned, joined, popped, m_ValidCount,
                   m_CorruptedCount>>
    /\ UNCHANGED <<srcExists, quarantine, choice, response, actIndex, moves, deleted>>

\* one iteration of the move loop: the destination search, then fs::rename,
\* whose filesystem_error is caught inside the loop; a filesystem_error of
\* fs::exists is caught outside the loop and ends it
MoveOne ==
    /\ vpc = "moveLoop"
    /\ IF actIndex < Len(corruptedFiles)
       THEN LET file     == corruptedFiles[actIndex + 1]
                destPath == DestPath(quarantine, Filename(file), Filename(file), 1)
            IN  \E outcome \in {"renamed", "rename_error", "exists_error"} :
                  IF outcome = "renamed" /\ file \in srcExists
                  THEN /\ srcExists' = srcExists \ {file}
                       /\ quarantine' = quarantine \cup {destPath}
                       /\ moves' = Append(moves, [src |-> file, dest |-> destPath,
                                                  taken |-> quarantine])
                       /\ actIndex' = actIndex + 1
                       /\ UNCHANGED <<vpc, vExit>>
                  ELSE IF outcome = "exists_error"
                  THEN /\ vpc' = "exited"
                       /\ vExit' = "exit_0"
                       /\ UNCHANGED <<srcExists, quarantine, moves, actIndex>>
                  ELSE /\ actIndex' = actIndex + 1
                       /\ UNCHANGED <<srcExists, quarantine, moves, vpc, vExit>>
       ELSE /\ vpc' = "exited"
            /\ vExit' = "exit_0"
            /\ UNCHANGED <<srcExists, quarantine, moves, actIndex>>
    /\ UNCHANGED <<imageFiles, m_TotalCount, m_queue, m_Results, m_ProcessedCount,
                   m_NumThreads, workers, spawned, joined, popped, m_ValidCount,
                   m_CorruptedCount>>
    /\ UNCHANGED <<choice, response, corruptedFiles, deleted>>

\* no file action has started
ActionsIdle ==
    /\ srcExists = {}
    /\ quarantine = {}
    /\ choice = 0
    /\ response = ""
    /\ corruptedFiles = <<>>
    /\ actIndex = 0
    /\ moves = <<>>
    /\ deleted = {}

\* names the corrupted_images folder may hold from earlier runs
OldQuarantines == SUBSET {Name_x_jpg, Name_x_1_jpg}

\* the validator at the prompt of main: a scan by two workers has recorded
\* one result per catalog file, in any order, and some file is corrupted
InitActions ==
    /\ folderExists = TRUE
    /\ folder \in Listings(ActionPaths)
    /\ imageFiles = ScanCatalog(folder)
    /\ m_TotalCount = Len(imageFiles)
    /\ m_queue = <<>>
    /\ m_Results \in Perms([i \in 1..Len(imageFiles) |-> validateImage(imageFiles[i])])
    /\ m_ProcessedCount = Len(imageFiles)
    /\ m_NumThreads = 2
    /\ workers = [w \in 1..2 |-> [IdleWorker EXCEPT !.pc = "exited"]]
    /\ spawned = 2
    /\ joined = 2
    /\ popped = imageFiles
    /\ m_ValidCount = Cardinality({i \in 1..Len(m_Results) : m_Results[i].isValid})
    /\ m_CorruptedCount = Cardinality({i \in 1..Len(m_Results) : ~m_Results[i].isValid})
    /\ m_CorruptedCount > 0
    /\ vpc = "prompt"
    /\ vExit = "running"
    /\ srcExists = Range(folder)
    /\ quarantine \in OldQuarantines
    /\ choice = 0
    /\ response = ""
    /\ corruptedFiles = <<>>
    /\ actIndex = 0
    /\ moves = <<>>
    /\ deleted = {}

----------------------------------------------------------------------------
\* darkscore-select: loadBuckets and the single execution mode of main

\* the delimiter of the CSV file
CSV_DELIM == ","

Line_header == <<"p", "a", "t", "h", ",", "s", "c", "o", "r", "e">>
Line_a      == <<"a", ".", "j", "p", "g", ",", "0", ".", "9", "5">>
Line_b      == <<"b", ".", "j", "p", "g", ",", "0", ".", "0", "5">>
Line_c      == <<"c", ".", "j", "p", "g", ",", "0", ".", "5">>
Line_d      == <<"d", ".", "j", "p", "g">>
Line_e      == <<"e", ".", "j", "p", "g", ",", "x">>
Line_f      == <<"f", ".", "j", "p", "g", ",", " ", "0", ".", "9", "x">>
Line_g      == <<"g", ".", "j", "p", "g", ",", "1", ".", "5">>

\* the lines the CSV files are made of: a header, the rows a.jpg 0.95,
\* b.jpg 0.05 and c.jpg 0.5, a row with one field, a row whose score does not
\* parse, a row with leading space and trailing text around the score 0.9,
\* and a row with the score 1.5
LinePool == {Line_header, Line_a, Line_b, Line_c, Line_d, Line_e, Line_f, Line_g}

\* the files of at most MaxLines distinct lines
CsvFiles ==
    {f \in UNION {[1..n -> LinePool] : n \in 0..MaxLines} : IsInjective(f)}

\* the files the runs in loop or daemon mode read
LoopCsvFiles == {f \in CsvFiles : Len(f) <= MaxLoopLines}

\* split: the tokens std::getline cuts at the delimiter; text after the last
\* delimiter is a token only if it is not empty
RECURSIVE SplitFrom(_, _, _)
SplitFrom(line, delimiter, start) ==
    IF start > Len(line) THEN <<>>
    ELSE LET ends == {i \in start..Len(line) : line[i] = delimiter}
             stop == IF ends = {} THEN Len(line) + 1
                     ELSE CHOOSE i \in ends : \A j \in ends : i <= j
         IN  <<SubSeq(line, start, stop - 1)>> \o SplitFrom(line, delimiter, stop + 1)

split(line, delimiter) == SplitFrom(line, delimiter, 1)

IsDigit(c) == c \in Range(Digits)

DigitValue(c) == CHOOSE d \in 0..9 : Digits[d + 1] = c

\* the first position from i on that holds no white space
RECURSIVE SkipSpace(_, _)
SkipSpace(str, i) ==
    IF i <= Len(str) /\ str[i] \in {" ", "\t"} THEN SkipSpace(str, i + 1) ELSE i

\* the first position from i on that holds no digit
RECURSIVE DigitRun(_, _)
DigitRun(str, i) ==
    IF i <= Len(str) /\ IsDigit(str[i]) THEN DigitRun(str, i + 1) ELSE i

\* the number the digits str[from..to] write
RECURSIVE Number(_, _, _)
Number(str, from, to) ==
    IF from > to THEN 0 ELSE Number(str, from, to - 1) * 10 + DigitValue(str[to])

RECURSIVE Pow10(_)
Pow10(n) == IF n = 0 THEN 1 ELSE 10 * Pow10(n - 1)

\* std::stod on decimal text: white space, a sign, digits, a point, digits;
\* the conversion stops at the first character that does not fit and throws
\* std::invalid_argument when it read no digit. The value is the exact
\* fraction num / den, negated when neg.
stod(str) ==
    LET a        == SkipSpace(str, 1)
        signed   == a <= Len(str) /\ str[a] \in {"+", "-"}
        b        == IF signed THEN a + 1 ELSE a
        c        == DigitRun(str, b)
        hasPoint == c <= Len(str) /\ str[c] = "."
        d        == IF hasPoint THEN DigitRun(str, c + 1) ELSE c
        fraction == IF hasPoint THEN d - (c + 1) ELSE 0
    IN  [throws |-> (c - b) + fraction = 0,
         neg    |-> signed /\ str[a] = "-",
         num    |-> Number(str, b, c - 1) * Pow10(fraction) + Number(str, c + 1, d - 1),
         den    |-> Pow10(fraction)]

\* score > tenths / 10
Exceeds(score, tenths) == ~score.neg /\ score.num * 10 > tenths * score.den

\* mutant: the thresholds belong to the darker bucket (score >= 0.9 is bucket 0)
getDarknessBucketClosed(score) ==
    IF ~score.neg /\ score.num * 10 >= 9 * score.den THEN 0
    ELSE IF ~score.neg /\ score.num * 10 >= 8 * score.den THEN 1
    ELSE IF ~score.neg /\ score.num * 10 >= 6 * score.den THEN 2
    ELSE IF ~score.neg /\ score.num * 10 >= 4 * score.den THEN 3
    ELSE IF ~score.neg /\ score.num * 10 >= 2 * score.den THEN 4
    ELSE 5

\* mutant: bucket 0 is the brightest
getDarknessBucketInverted(score) ==
    IF Exceeds(score, 9) THEN 5
    ELSE IF Exceeds(score, 8) THEN 4
    ELSE IF Exceeds(score, 6) THEN 3
    ELSE IF Exceeds(score, 4) THEN 2
    ELSE IF Exceeds(score, 2) THEN 1
    ELSE 0

getDarknessBucket(score) ==
    IF Exceeds(score, 9) THEN 0
    ELSE IF Exceeds(score, 8) THEN 1
    ELSE IF Exceeds(score, 6) THEN 2
    ELSE IF Exceeds(score, 4) THEN 3
    ELSE IF Exceeds(score, 2) THEN 4
    ELSE 5

getTargetBucketForHour(h) ==
    IF h >= 20 THEN 0
    ELSE IF h >= 19 THEN 1
    ELSE IF h >= 18 THEN 2
    ELSE IF h >= 17 THEN 3
    ELSE IF h >= 16 THEN 4
    ELSE IF h >= 12 THEN 2
    ELSE IF h >= 9 THEN 2
    ELSE IF h >= 7 THEN 2
    ELSE IF h >= 5 THEN 1
    ELSE 0

EmptyBuckets == [b \in BucketIds |-> <<>>]

RECURSIVE LoadRows(_, _, _)

\* mutant: the first malformed row ends the load
LoadRowsAbort(lines, i, acc) ==
    IF i > Len(lines) THEN acc
    ELSE LET fields == split(lines[i], CSV_DELIM) IN
         IF Len(fields) < 2 THEN acc
         ELSE LET score == stod(fields[2]) IN
              IF score.throws THEN acc
              ELSE LET b == getDarknessBucket(score)
                       image == [filePath |-> fields[1],
                                 score |-> [neg |-> score.neg, num |-> score.num,
                                            den |-> score.den]]
                   IN  LoadRows(lines, i + 1, [acc EXCEPT ![b] = Append(@, image)])

\* the loop of loadBuckets over the lines after the header
LoadRows(lines, i, acc) ==
    IF i > Len(lines) THEN acc
    ELSE LET fields == split(lines[i], CSV_DELIM) IN
         IF Len(fields) < 2 THEN LoadRows(lines, i + 1, acc)
         ELSE LET score == stod(fields[2]) IN
              IF score.throws THEN LoadRows(lines, i + 1, acc)
              ELSE LET b == getDarknessBucket(score)
                       image == [filePath |-> fields[1],
                                 score |-> [neg |-> score.neg, num |-> score.num,
                                            den |-> score.den]]
                   IN  LoadRows(lines, i + 1, [acc EXCEPT ![b] = Append(@, image)])

loadBuckets(opens, lines) ==
    IF ~opens THEN EmptyBuckets ELSE LoadRows(lines, 2, EmptyBuckets)

\* the fallback loop of main's single execution mode
RECURSIVE MainFallbackLoop(_, _, _)
MainFallbackLoop(bk, target, offset) ==
    IF bk[target] = <<>> /\ offset < NumBuckets
    THEN LET o    == offset + 1
             up   == target + o
             down == target - o
         IN  IF up < NumBuckets /\ bk[up] # <<>> THEN up
             ELSE IF down >= 0 /\ bk[down] # <<>> THEN down
             ELSE MainFallbackLoop(bk, target, o)
    ELSE target

NoHour == -1

NoChosen == [filePath |-> <<>>, score |-> [neg |-> FALSE, num |-> 0, den |-> 1]]

\* main up to loadBuckets: with --daemon, daemonize forks and the process
\* the user started exits: with EXIT_FAILURE when fork fails, with
\* EXIT_SUCCESS otherwise; the child exits with EXIT_FAILURE when setsid or
\* the second fork fails and goes on as the daemon otherwise
Start ==
    /\ spc = "start"
    /\ IF isDaemon
       THEN \E forked \in {"daemon", "fork_failed", "child_failed"} :
               /\ invokedExit' = IF forked = "fork_failed" THEN "exit_1" ELSE "exit_0"
               /\ spc' = IF forked = "daemon" THEN "load" ELSE "exited"
               /\ sExit' = IF forked = "daemon" THEN sExit ELSE "exit_1"
       ELSE /\ spc' = "load"
            /\ UNCHANGED <<invokedExit, sExit>>
    /\ UNCHANGED <<inputOpens, inputLines, isLoop, isDaemon, stdinRaw, mainBuckets,
                   hour, mainTarget, mainChosenBucket, mainChosen>>
    /\ UNCHANGED samplerVars

\* main up to the mode switch: loadBuckets, then return 1 when no bucket
\* holds an image
LoadBuckets ==
    /\ spc = "load"
    /\ mainBuckets' = loadBuckets(inputOpens, inputLines)
    /\ IF \E b \in BucketIds : mainBuckets'[b] # <<>>
       THEN /\ spc' = IF isLoop \/ isDaemon THEN "enter_loop" ELSE "select"
            /\ UNCHANGED <<sExit, invokedExit>>
       ELSE /\ spc' = "exited"
            /\ sExit' = "exit_1"
            /\ invokedExit' = IF isDaemon THEN invokedExit ELSE "exit_1"
    /\ UNCHANGED <<inputOpens, inputLines, isLoop, isDaemon, stdinRaw, hour,
                   mainTarget, mainChosenBucket, mainChosen>>
    /\ UNCHANGED samplerVars

\* main in single execution mode: the hour, the target bucket, the fallback
\* search, a uniformly drawn item of the chosen bucket
SingleExecution ==
    /\ spc = "select"
    /\ \E h \in 0..23 :
          LET target == getTargetBucketForHour(h)
              bucket == MainFallbackLoop(mainBuckets, target, 0)
          IN  /\ hour' = h
              /\ mainTarget' = target
              /\ mainChosenBucket' = bucket
              /\ IF mainBuckets[bucket] = <<>>
                 THEN /\ sExit' = "exit_1"
                      /\ invokedExit' = "exit_1"
                      /\ UNCHANGED mainChosen
                 ELSE /\ \E k \in 1..Len(mainBuckets[bucket]) : mainChosen' = mainBuckets[bucket][k]
                      /\ sExit' = "exit_0"
                      /\ invokedExit' = "exit_0"
    /\ spc' = "exited"
    /\ UNCHANGED <<inputOpens, inputLines, isLoop, isDaemon, stdinRaw, mainBuckets>>
    /\ UNCHANGED samplerVars

\* main entering loop mode: the BucketIterator constructor shuffles every
\* bucket, and setNonBlockingInput(true) is called with --loop without --daemon
EnterLoop ==
    /\ spc = "enter_loop"
    /\ \E p0 \in Shuffle(mainBuckets[0]), p1 \in Shuffle(mainBuckets[1]),
          p2 \in Shuffle(mainBuckets[2]), p3 \in Shuffle(mainBuckets[3]),
          p4 \in Shuffle(mainBuckets[4]), p5 \in Shuffle(mainBuckets[5]) :
          shuffledBuckets' = [b \in BucketIds |-> <<p0, p1, p2, p3, p4, p5>>[b + 1]]
    /\ currentIndices' = [b \in BucketIds |-> 0]
    /\ lastUsedBucket' = NoBucket
    /\ status' = "constructed"
    /\ stdinRaw' = (isLoop /\ ~isDaemon)
    /\ spc' = "loop"
    /\ UNCHANGED <<targetBucket, chosenBucket, result, cycle>>
    /\ UNCHANGED <<inputOpens, inputLines, isLoop, isDaemon, invokedExit, mainBuckets,
                   hour, mainTarget, mainChosenBucket, mainChosen, sExit>>

\* one iteration of while (true): the hour, getNext, executeWallpaperChange
\* and the sleep; a std::exception of the body is caught, logged and followed
\* by a sleep of 60 seconds
LoopIteration ==
    /\ spc = "loop"
    /\ \E h \in 0..23 :
          /\ hour' = h
          /\ mainTarget' = getTargetBucketForHour(h)
          /\ getNext(getTargetBucketForHour(h))
    /\ UNCHANGED <<inputOpens, inputLines, isLoop, isDaemon, spc, invokedExit, stdinRaw,
                   mainBuckets, mainChosenBucket, mainChosen, sExit>>

\* SIGINT reaches the process that runs main: no handler is installed, so
\* the process is terminated where it is
Interrupt ==
    /\ spc \in {"start", "load", "select", "enter_loop", "loop"}
    /\ spc' = "killed"
    /\ sExit' = "signal"
    /\ invokedExit' = IF invokedExit = "running" THEN "signal" ELSE invokedExit
    /\ UNCHANGED <<inputOpens, inputLines, isLoop, isDaemon, stdinRaw, mainBuckets,
                   hour, mainTarget, mainChosenBucket, mainChosen>>
    /\ UNCHANGED samplerVars

\* darkscore-select has not been started
SelectIdle ==
    /\ inputOpens = FALSE
    /\ inputLines = <<>>
    /\ isLoop = FALSE
    /\ isDaemon = FALSE
    /\ spc = "exited"
    /\ invokedExit = "running"
    /\ stdinRaw = FALSE
    /\ mainBuckets = EmptyBuckets
    /\ hour = NoHour
    /\ mainTarget = 0
    /\ mainChosenBucket = 0
    /\ mainChosen = NoChosen
    /\ sExit = "running"

\* main starts in one of its modes on a file that does not open or on one of
\* the CSV files
InitSelect ==
    /\ isLoop \in BOOLEAN
    /\ isDaemon \in BOOLEAN
    /\ \/ inputOpens = FALSE /\ inputLines = <<>>
       \/ /\ inputOpens = TRUE
          /\ inputLines \in (IF isLoop \/ isDaemon THEN LoopCsvFiles ELSE CsvFiles)
    /\ spc = "start"
    /\ invokedExit = "running"
    /\ stdinRaw = FALSE
    /\ mainBuckets = EmptyBuckets
    /\ hour = NoHour
    /\ mainTarget = 0
    /\ mainChosenBucket = 0
    /\ mainChosen = NoChosen
    /\ sExit = "running"

\* the score fields of the rows of a scored CSV file: the thresholds of
\* getDarknessBucket, a value inside each range, the ends of [0, 1], a negative
\* score and a text that is no number
ScoreTexts ==
    <<<<"0", ".", "9", "5">>, <<"0", ".", "9">>, <<"0", ".", "8", "5">>,
      <<"0", ".", "8">>, <<"0", ".", "7">>, <<"0", ".", "6">>, <<"0", ".", "5">>,
      <<"0", ".", "4">>, <<"0", ".", "3">>, <<"0", ".", "2">>, <<"0", ".", "1">>,
      <<"0">>, <<"1">>, <<"-", "0", ".", "5">>, <<"x">>>>

\* the paths of these rows
ScorePaths == <<"a", "b", "c", "d", "e", "f", "g", "h", "i", "j", "k", "l", "m", "n", "o">>

ScoreRow(k) == <<ScorePaths[k]>> \o <<CSV_DELIM>> \o ScoreTexts[k]

\* the files of a header and at most MaxRows distinct scored rows
ScoreFiles ==
    {<<Line_header>> \o [i \in 1..Len(f) |-> ScoreRow(f[i])] :
        f \in {g \in UNION {[1..m -> 1..Len(ScoreTexts)] : m \in 0..MaxRows} :
                 IsInjective(g)}}

\* main in single execution mode over a scored CSV file
InitLoad ==
    /\ isLoop = FALSE
    /\ isDaemon = FALSE
    /\ inputOpens = TRUE
    /\ inputLines \in ScoreFiles
    /\ spc = "start"
    /\ invokedExit = "running"
    /\ stdinRaw = FALSE
    /\ mainBuckets = EmptyBuckets
    /\ hour = NoHour
    /\ mainTarget = 0
    /\ mainChosenBucket = 0
    /\ mainChosen = NoChosen
    /\ sExit = "running"

----------------------------------------------------------------------------
\* grouper

\* colorGroups: 0 is Miscellaneous
NumGroups == 13

GroupIds == 0..(NumGroups - 1)

\* assignedGroup of an image no worker has classified (an empty string)
NoGroup == -1

\* no render has happened
NoRender == -1

\* hardware_concurrency() values: 0 when not computable
HardwareConcurrency == {0, 1, 2, 8}

supportedExtensions == m_supportedExtensions

\* isSupportedFormat of utils.cpp
utils_isSupportedFormatThrows(name) == SubstrThrows(name, FindLastOf(name, "."))

utils_isSupportedFormat(name) ==
    LET extension == Substr(name, FindLastOf(name, "."))
        lowered   == [i \in 1..Len(extension) |-> ToLower(extension[i])]
    IN  lowered \in supportedExtensions

\* the two directory iterations of scanFolderMakeStructs
MakeStructsThrows(entries) ==
    \E i \in 1..Len(entries) :
        FilePool[entries[i]].regular /\ utils_isSupportedFormatThrows(Filename(entries[i]))

MakeStructs(entries) ==
    LET files == SelectSeq(entries,
                     LAMBDA e : FilePool[e].regular /\ utils_isSupportedFormat(Filename(e)))
    IN  [i \in 1..Len(files) |->
            [path |-> files[i], assignedGroup |-> NoGroup, groupScore |-> 0]]

\* the loop of assignImageToGroup over the groups i..12: <<bestScore, bestGroupId>>
RECURSIVE BestGroup(_, _, _, _)
BestGroup(scores, i, bestScore, bestGroupId) ==
    IF i >= NumGroups THEN <<bestScore, bestGroupId>>
    ELSE IF scores[i] > bestScore
         THEN BestGroup(scores, i + 1, scores[i], i)
         ELSE BestGroup(scores, i + 1, bestScore, bestGroupId)

\* mutant: a best score of exactly 0.3 falls back to Miscellaneous
assignImageToGroupAboveThreshold(imageInfo) ==
    LET best        == BestGroup(FilePool[imageInfo.path].scores, 1, 0, 0)
        bestGroupId == IF best[1] <= 30 THEN 0 ELSE best[2]
    IN  [imageInfo EXCEPT !.assignedGroup = bestGroupId, !.groupScore = best[1]]

\* assignImageToGroup up to the counter: the fields written to imageInfo and
\* the local bestGroupId
assignImageToGroup(imageInfo) ==
    LET best        == BestGroup(FilePool[imageInfo.path].scores, 1, 0, 0)
        bestGroupId == IF best[1] < 30 THEN 0 ELSE best[2]
    IN  [imageInfo EXCEPT !.assignedGroup = bestGroupId, !.groupScore = best[1]]

IdleThread == [pc |-> "load", i |-> 0, end |-> 0, best |-> NoGroup, reg |-> 0]

\* mutant: the quotient is rounded down
ChunkSizeFloor(total, n) == total \div n

\* size_t chunkSize = (totalImages + numThreads - 1) / numThreads
ChunkSize(total, n) == (total + n - 1) \div n

\* processImages up to the thread spawn loop (lines 383-401)
GScan ==
    /\ gpc = "processImages"
    /\ IF ~folderExists
       THEN \* scanFolderMakeStructs returns 0: exit(1)
            /\ gpc' = "exited"
            /\ gExit' = "exit_1"
            /\ UNCHANGED <<images, numThreads, chunkSize>>
       ELSE IF MakeStructsThrows(folder)
       THEN \* std::out_of_range is not caught: std::terminate
            /\ gpc' = "exited"
            /\ gExit' = "abort"
            /\ UNCHANGED <<images, numThreads, chunkSize>>
       ELSE /\ images' = MakeStructs(folder)
            /\ IF ~(Len(MakeStructs(folder)) > 0)
               THEN /\ gpc' = "exited"
                    /\ gExit' = "exit_1"
                    /\ UNCHANGED <<numThreads, chunkSize>>
               ELSE LET n == IF hardware = 0 THEN 4 ELSE hardware IN
                    /\ numThreads' = n
                    /\ chunkSize' = ChunkSize(Len(MakeStructs(folder)), n)
                    /\ gpc' = "spawn"
                    /\ UNCHANGED gExit
    /\ IF gpc' = "spawn"
       THEN \* running = true, Cursor::hide(), printThread is started
            /\ running' = TRUE
            /\ cursorHidden' = TRUE
            /\ rpc' = "check"
            /\ UNCHANGED <<shown, shownAfterStop>>
       ELSE UNCHANGED reporterVars
    /\ UNCHANGED <<counter, processedImages, hardware, threads, gT, gJoined>>

\* for (t = 0; t < numThreads; ++t) threads.emplace_back(...), indices 0-based
GSpawn ==
    /\ gpc = "spawn"
    /\ LET start == gT * chunkSize
           end   == IF start + chunkSize < Len(images) THEN start + chunkSize
                                                        ELSE Len(images)
       IN  IF gT < numThreads /\ ~(start >= Len(images))
           THEN /\ threads' = Append(threads, [IdleThread EXCEPT !.i = start, !.end = end])
                /\ gT' = gT + 1
                /\ UNCHANGED gpc
           ELSE /\ gpc' = "join"
                /\ UNCHANGED <<threads, gT>>
    /\ UNCHANGED <<images, counter, processedImages, hardware, numThreads, chunkSize,
                   gJoined, gExit>>
    /\ UNCHANGED reporterVars

\* thread.join() in start order
GJoin ==
    /\ gpc = "join"
    /\ IF gJoined < Len(threads)
       THEN /\ threads[gJoined + 1].pc = "exited"
            /\ gJoined' = gJoined + 1
            /\ UNCHANGED gpc
       ELSE /\ gpc' = "stop"
            /\ UNCHANGED gJoined
    /\ UNCHANGED <<images, counter, processedImages, hardware, numThreads, chunkSize,
                   threads, gT, gExit>>
    /\ UNCHANGED reporterVars

\* running = false (line 522)
GStop ==
    /\ gpc = "stop"
    /\ running' = FALSE
    /\ gpc' = "joinPrint"
    /\ UNCHANGED <<images, counter, processedImages, hardware, numThreads, chunkSize,
                   threads, gT, gJoined, gExit>>
    /\ UNCHANGED <<rpc, shown, shownAfterStop, cursorHidden>>

\* printThread.join() (line 523) and the rest of processImages
GJoinPrint ==
    /\ gpc = "joinPrint"
    /\ rpc = "done"
    /\ gpc' = "processed"
    /\ UNCHANGED <<images, counter, processedImages, hardware, numThreads, chunkSize,
                   threads, gT, gJoined, gExit>>
    /\ UNCHANGED reporterVars

\* printThread: the test of while (running)
RCheck ==
    /\ gExit = "running"
    /\ rpc = "check"
    /\ rpc' = IF running THEN "tick" ELSE "done"
    /\ UNCHANGED <<gpc, images, counter, processedImages, hardware, numThreads,
                   chunkSize, threads, gT, gJoined, gExit>>
    /\ UNCHANGED <<running, shown, shownAfterStop, cursorHidden>>

\* printThread: the body of the loop, the sleep of 300 ms and one render of
\* the processed count under coutMutex
RTick ==
    /\ gExit = "running"
    /\ rpc = "tick"
    /\ shown' = processedImages
    /\ shownAfterStop' = ~running
    /\ rpc' = "check"
    /\ UNCHANGED <<gpc, images, counter, processedImages, hardware, numThreads,
                   chunkSize, threads, gT, gJoined, gExit>>
    /\ UNCHANGED <<running, cursorHidden>>

\* SIGINT while main runs: handleCtrlC shows the cursor and calls exit(1)
GInterrupt ==
    /\ gExit = "running"
    /\ gpc # "exited"
    /\ cursorHidden' = FALSE
    /\ gpc' = "interrupted"
    /\ gExit' = "exit_1"
    /\ UNCHANGED <<images, counter, processedImages, hardware, numThreads, chunkSize,
                   threads, gT, gJoined>>
    /\ UNCHANGED <<running, rpc, shown, shownAfterStop>>

\* processImageThread: the loop test, cv::imread, the colour extraction and
\* the part of assignImageToGroup that writes images[i]
GLoad(th) ==
    /\ gExit = "running"
    /\ threads[th].pc = "load"
    /\ LET t == threads[th] IN
       IF ~(t.i < t.end)
       THEN /\ threads' = [threads EXCEPT ![th].pc = "exited"]
            /\ UNCHANGED <<gpc, images, gExit>>
       ELSE LET decode == FilePool[images[t.i + 1].path].decode IN
            IF decode = "throws"
            THEN \* the exception leaves the thread function: std::terminate
                 /\ gpc' = "exited"
                 /\ gExit' = "abort"
                 /\ UNCHANGED <<threads, images>>
            ELSE IF decode = "empty"
            THEN \* "Could not load": continue
                 /\ threads' = [threads EXCEPT ![th].i = t.i + 1]
                 /\ UNCHANGED <<gpc, images, gExit>>
            ELSE /\ images' = [images EXCEPT ![t.i + 1] = assignImageToGroup(@)]
                 /\ threads' = [threads EXCEPT
                        ![th].pc = "counter_read",
                        ![th].best = assignImageToGroup(images[t.i + 1]).assignedGroup]
                 /\ UNCHANGED <<gpc, gExit>>
    /\ UNCHANGED <<counter, processedImages, hardware, numThreads, chunkSize, gT,
                   gJoined>>
    /\ UNCHANGED reporterVars

\* colorGroups[bestGroupId].counter++ (line 336), before processMutex is
\* taken: the load of the plain int
GCounterRead(th) ==
    /\ gExit = "running"
    /\ threads[th].pc = "counter_read"
    /\ threads' = [threads EXCEPT ![th].pc = "counter_write",
                                  ![th].reg = counter[threads[th].best]]
    /\ UNCHANGED <<gpc, images, counter, processedImages, hardware, numThreads,
                   chunkSize, gT, gJoined, gExit>>
    /\ UNCHANGED reporterVars

\* ... and the store of the incremented value
GCounterWrite(th) ==
    /\ gExit = "running"
    /\ threads[th].pc = "counter_write"
    /\ counter' = [counter EXCEPT ![threads[th].best] = threads[th].reg + 1]
    /\ threads' = [threads EXCEPT ![th].pc = "count", ![th].reg = 0]
    /\ UNCHANGED <<gpc, images, processedImages, hardware, numThreads, chunkSize,
                   gT, gJoined, gExit>>
    /\ UNCHANGED reporterVars

\* lock_guard(processMutex) taken and dropped (line 337), processedImages++
GCount(th) ==
    /\ gExit = "running"
    /\ threads[th].pc = "count"
    /\ processedImages' = processedImages + 1
    /\ threads' = [threads EXCEPT ![th].pc = "load", ![th].i = @ + 1,
                                  ![th].best = NoGroup]
    /\ UNCHANGED <<gpc, images, counter, hardware, numThreads, chunkSize, gT,
                   gJoined, gExit>>
    /\ UNCHANGED reporterVars

\* main after processImages: summary, optional copy/move, report, return 0
GFinish ==
    /\ gpc = "processed"
    /\ gpc' = "exited"
    /\ gExit' = "exit_0"
    /\ cursorHidden' = FALSE
    /\ UNCHANGED <<images, counter, processedImages, hardware, numThreads, chunkSize,
                   threads, gT, gJoined>>
    /\ UNCHANGED <<running, rpc, shown, shownAfterStop>>

\* the grouper before main runs
GrouperIdle ==
    /\ gpc = "idle"
    /\ images = <<>>
    /\ counter = [g \in GroupIds |-> 0]
    /\ processedImages = 0
    /\ hardware = 0
    /\ numThreads = 0
    /\ chunkSize = 0
    /\ threads = <<>>
    /\ gT = 0
    /\ gJoined = 0
    /\ gExit = "running"
    /\ running = FALSE
    /\ rpc = "idle"
    /\ shown = NoRender
    /\ shownAfterStop = FALSE
    /\ cursorHidden = FALSE

\* main up to processImages(inputFolder, algorithm)
InitGrouper ==
    /\ folderExists \in BOOLEAN
    /\ folder \in Listings(GrouperPaths)
    /\ (~folderExists => folder = <<>>)
    /\ hardware \in HardwareConcurrency
    /\ gpc = "processImages"
    /\ images = <<>>
    /\ counter = [g \in GroupIds |-> 0]
    /\ processedImages = 0
    /\ numThreads = 0
    /\ chunkSize = 0
    /\ threads = <<>>
    /\ gT = 0
    /\ gJoined = 0
    /\ gExit = "running"
    /\ running = FALSE
    /\ rpc = "idle"
    /\ shown = NoRender
    /\ shownAfterStop = FALSE
    /\ cursorHidden = FALSE

\* processImages at its spawn loop, over a catalog of 1..MaxCatalog records
\* and with 1..MaxThreads as numThreads
InitSpawn ==
    /\ \E total \in 1..MaxCatalog, n \in 1..MaxThreads :
          /\ images = [k \in 1..total |->
                          [path |-> CHOOSE p \in GrouperPaths : TRUE,
                           assignedGroup |-> NoGroup, groupScore |-> 0]]
          /\ hardware = n
          /\ numThreads = n
          /\ chunkSize = ChunkSize(total, n)
    /\ gpc = "spawn"
    /\ counter = [g \in GroupIds |-> 0]
    /\ processedImages = 0
    /\ threads = <<>>
    /\ gT = 0
    /\ gJoined = 0
    /\ gExit = "running"
    /\ running = TRUE
    /\ rpc = "check"
    /\ shown = NoRender
    /\ shownAfterStop = FALSE
    /\ cursorHidden = TRUE

----------------------------------------------------------------------------
\* grouper: the render loop of printThread on its own; rates are exact
\* fractions <<numerator, denominator>> of images per second

RECURSIVE GCD(_, _)
GCD(a, b) == IF b = 0 THEN a ELSE GCD(b, a % b)

\* the fraction n/d in lowest terms, d > 0
Q(n, d) == LET g == GCD(Abs(n), d) IN <<n \div g, d \div g>>

Zero == Q(0, 1)

QAdd(p, q) == Q(p[1] * q[2] + q[1] * p[2], p[2] * q[2])

QLess(p, q) == p[1] * q[2] < q[1] * p[2]

\* const size_t max_samples = 10
max_samples == 10

\* eta_str stays empty
NoEta == <<>>

\* images the workers finish between two renders
Steps == 0..2

\* milliseconds between two renders of a run: the sleep of 300 ms, or the
\* sleep and a wait as long for coutMutex
TickLengths == {300, 600}

\* instant_speed = (current - prev_processed) / time_delta.count()
InstantSpeed(k, ms) == IF ms > 0 THEN Q(1000 * k, ms) ELSE Zero

\* mutant: every pass appends its sample
PushSampleAlways(samples, sample, advanced) ==
    IF Len(samples) + 1 > max_samples THEN Tail(Append(samples, sample))
    ELSE Append(samples, sample)

\* speed_samples.push_back(instant_speed), erase(begin()) past max_samples,
\* only if current > prev_processed
PushSample(samples, sample, advanced) ==
    IF ~advanced THEN samples
    ELSE IF Len(samples) + 1 > max_samples THEN Tail(Append(samples, sample))
    ELSE Append(samples, sample)

RECURSIVE SumOf(_)
SumOf(samples) == IF samples = <<>> THEN Zero ELSE QAdd(Head(samples), SumOf(Tail(samples)))

\* mutant: the sum is divided by the capacity of the window
AverageOverCapacity(samples) ==
    IF samples = <<>> THEN Zero
    ELSE LET sum == SumOf(samples) IN Q(sum[1], sum[2] * max_samples)

\* avg_speed = sum / speed_samples.size(), 0.0 on an empty window
Average(samples) ==
    IF samples = <<>> THEN Zero
    ELSE LET sum == SumOf(samples) IN Q(sum[1], sum[2] * Len(samples))

\* mutant: an ETA is computed whenever avg_speed > 0
RemainingTimeWhenMoving(total, cur, avg) ==
    IF QLess(Zero, avg) THEN Q((total - cur) * avg[2], avg[1]) ELSE NoEta

\* remaining_time = (totalImages - current) / avg_speed when avg_speed > 0 and
\* current < totalImages
RemainingTime(total, cur, avg) ==
    IF QLess(Zero, avg) /\ cur < total THEN Q((total - cur) * avg[2], avg[1]) ELSE NoEta

\* one pass of the loop body: the workers have finished k more images since
\* the last pass, which started time_delta milliseconds ago
Render(k) ==
    LET cur     == current + k
        samples == PushSample(speed_samples, InstantSpeed(cur - prev_processed, time_delta),
                              cur > prev_processed)
        avg     == Average(samples)
    IN  /\ current' = cur
        /\ speed_samples' = samples
        /\ avg_speed' = avg
        /\ prev_processed' = cur
        /\ eta' = RemainingTime(totalImages, cur, avg)
        /\ prev_eta' = eta
        /\ top_speed' = IF QLess(top_speed, avg) THEN avg ELSE top_speed
        /\ firstStep' = IF firstStep = <<>> THEN <<k>> ELSE firstStep
        /\ steady' = (steady /\ (firstStep = <<>> \/ firstStep = <<k>>))
        /\ dropped' = (dropped \/ (cur > prev_processed /\ Len(speed_samples) = max_samples))
        /\ UNCHANGED <<totalImages, time_delta>>

\* while (running) { sleep_for(300 ms); render }
RenderTick ==
    /\ pstate = "running"
    /\ \E k \in Steps :
          /\ k <= totalImages - current
          /\ Render(k)
    /\ UNCHANGED pstate

\* processImages: every worker is joined, running = false
ReporterStop ==
    /\ pstate = "running"
    /\ current = totalImages
    /\ pstate' = "stopping"
    /\ UNCHANGED <<totalImages, time_delta, current, prev_processed, speed_samples, avg_speed,
                   top_speed, eta, prev_eta, firstStep, steady, dropped>>

\* the loop had read running before the store: one more pass
LastTick ==
    /\ pstate = "stopping"
    /\ Render(0)
    /\ pstate' = "stopped"

\* the loop reads running = false and ends
LoopExit ==
    /\ pstate = "stopping"
    /\ pstate' = "stopped"
    /\ UNCHANGED <<totalImages, time_delta, current, prev_processed, speed_samples, avg_speed,
                   top_speed, eta, prev_eta, firstStep, steady, dropped>>

\* no printThread is run on its own
PrintIdle ==
    /\ pstate = "idle"
    /\ totalImages = 0
    /\ time_delta = 0
    /\ current = 0
    /\ prev_processed = 0
    /\ speed_samples = <<>>
    /\ avg_speed = Zero
    /\ top_speed = Zero
    /\ eta = NoEta
    /\ prev_eta = NoEta
    /\ firstStep = <<>>
    /\ steady = TRUE
    /\ dropped = FALSE

\* the locals of printThread before the first pass, over a non-empty catalog
InitPrint ==
    /\ pstate = "running"
    /\ totalImages \in 1..MaxTotal
    /\ time_delta \in TickLengths
    /\ current = 0
    /\ prev_processed = 0
    /\ speed_samples = <<>>
    /\ avg_speed = Zero
    /\ top_speed = Zero
    /\ eta = NoEta
    /\ prev_eta = NoEta
    /\ firstStep = <<>>
    /\ steady = TRUE
    /\ dropped = FALSE

----------------------------------------------------------------------------
\* The mutexes of the two pools: every thread is followed from one lock or
\* unlock, decode or classification to the next

\* the mutexes: m_mutex and m_ResultsMutex of validator, coutMutex and
\* processMutex of grouper
Mutexes == {"m_mutex", "m_ResultsMutex", "coutMutex", "processMutex"}

\* no thread holds the mutex
NoOwner == -1

\* the threads: printThread, the workers, the thread of main
ReporterId == 0

WorkerIds == 1..LockWorkers

MainId == LockWorkers + 1

ThreadIds == 0..MainId

\* mutant: the lock_guard outlives its block
UnlockNever(own, m) == own

\* the destructor of the lock_guard or unique_lock
Unlock(own, m) == [own EXCEPT ![m] = NoOwner]

\* the constructor of the lock_guard or unique_lock returns
Lock(own, m, th) == [own EXCEPT ![m] = th]

\* thread th goes from position from to position to, taking mutex m
Acquire(th, from, to, m) ==
    /\ lpc[th] = from
    /\ owner[m] = NoOwner
    /\ owner' = Lock(owner, m, th)
    /\ lpc' = [lpc EXCEPT ![th] = to]

\* ---- validator

\* scanFolder: workQueue.push(imagePath), lock_guard on m_mutex
MainLockPush ==
    /\ pool = "validator"
    /\ toPush > 0
    /\ Acquire(MainId, "push", "pushLocked", "m_mutex")
    /\ UNCHANGED <<pool, left, pending, toPush, stopFlag>>

MainPushLocked ==
    /\ lpc[MainId] = "pushLocked"
    /\ pending' = pending + 1
    /\ toPush' = toPush - 1
    /\ owner' = Unlock(owner, "m_mutex")
    /\ lpc' = [lpc EXCEPT ![MainId] = "push"]
    /\ UNCHANGED <<pool, left, stopFlag>>

\* scanFolder: the workers are started when every path is queued
MainSpawnWorkers ==
    /\ pool = "validator"
    /\ lpc[MainId] = "push"
    /\ toPush = 0
    /\ lpc' = [th \in ThreadIds |->
                  IF th \in WorkerIds THEN "pop" ELSE IF th = MainId THEN "join" ELSE lpc[th]]
    /\ UNCHANGED <<pool, owner, left, pending, toPush, stopFlag>>

\* workerThread: workQueue.pop, unique_lock on m_mutex
WorkerLockPop(w) ==
    /\ Acquire(w, "pop", "popLocked", "m_mutex")
    /\ UNCHANGED <<pool, left, pending, toPush, stopFlag>>

\* pop with the lock held: the front is taken, or wait_for gives the mutex up
\* for the time of the wait
WorkerPopLocked(w) ==
    /\ lpc[w] = "popLocked"
    /\ owner' = Unlock(owner, "m_mutex")
    /\ IF pending > 0
       THEN pending' = pending - 1 /\ lpc' = [lpc EXCEPT ![w] = "decode"]
       ELSE pending' = pending /\ lpc' = [lpc EXCEPT ![w] = "wait"]
    /\ UNCHANGED <<pool, left, toPush, stopFlag>>

\* the timeout of wait_for: the mutex is taken again
WorkerWaitTimeout(w) ==
    /\ Acquire(w, "wait", "timedOut", "m_mutex")
    /\ UNCHANGED <<pool, left, pending, toPush, stopFlag>>

\* wait_for returns the predicate; pop returns and the unique_lock is destroyed
WorkerTimedOut(w) ==
    /\ lpc[w] = "timedOut"
    /\ owner' = Unlock(owner, "m_mutex")
    /\ IF pending > 0
       THEN pending' = pending - 1 /\ lpc' = [lpc EXCEPT ![w] = "decode"]
       ELSE pending' = pending /\ lpc' = [lpc EXCEPT ![w] = "exited"]
    /\ UNCHANGED <<pool, left, toPush, stopFlag>>

\* validateImage(imagePath): cv::imread
WorkerDecode(w) ==
    /\ pool = "validator"
    /\ lpc[w] = "decode"
    /\ lpc' = [lpc EXCEPT ![w] = "store"]
    /\ UNCHANGED <<pool, owner, left, pending, toPush, stopFlag>>

\* lock_guard on m_ResultsMutex
WorkerLockResults(w) ==
    /\ Acquire(w, "store", "storeLocked", "m_ResultsMutex")
    /\ UNCHANGED <<pool, left, pending, toPush, stopFlag>>

\* m_Results.push_back(result), end of the block, ++m_ProcessedCount
WorkerStoreLocked(w) ==
    /\ lpc[w] = "storeLocked"
    /\ owner' = Unlock(owner, "m_ResultsMutex")
    /\ lpc' = [lpc EXCEPT ![w] = "pop"]
    /\ UNCHANGED <<pool, left, pending, toPush, stopFlag>>

\* ---- grouper

\* processImages: printThread and the workers are started
MainSpawnThreads ==
    /\ pool = "grouper"
    /\ lpc[MainId] = "spawn"
    /\ lpc' = [th \in ThreadIds |->
                  IF th \in WorkerIds THEN "loop"
                  ELSE IF th = MainId THEN "join" ELSE "check"]
    /\ UNCHANGED <<pool, owner, left, pending, toPush, stopFlag>>

\* processImageThread: for (i = start; i < end; ++i)
ThreadLoop(w) ==
    /\ lpc[w] = "loop"
    /\ lpc' = [lpc EXCEPT ![w] = IF left[w] > 0 THEN "decode" ELSE "exited"]
    /\ UNCHANGED <<pool, owner, left, pending, toPush, stopFlag>>

\* cv::imread(imageInfo.path), image.empty()
ThreadDecode(w) ==
    /\ pool = "grouper"
    /\ lpc[w] = "decode"
    /\ \E loaded \in BOOLEAN :
          lpc' = [lpc EXCEPT ![w] = IF loaded THEN "classify" ELSE "report"]
    /\ UNCHANGED <<pool, owner, left, pending, toPush, stopFlag>>

\* lock_guard on coutMutex for "Could not load"
ThreadLockCout(w) ==
    /\ Acquire(w, "report", "reportLocked", "coutMutex")
    /\ UNCHANGED <<pool, left, pending, toPush, stopFlag>>

\* std::cerr << ..., continue
ThreadReportLocked(w) ==
    /\ lpc[w] = "reportLocked"
    /\ owner' = Unlock(owner, "coutMutex")
    /\ left' = [left EXCEPT ![w] = @ - 1]
    /\ lpc' = [lpc EXCEPT ![w] = "loop"]
    /\ UNCHANGED <<pool, pending, toPush, stopFlag>>

\* resize, extractDominantColors, the scores and the counter of
\* assignImageToGroup
ThreadClassify(w) ==
    /\ lpc[w] = "classify"
    /\ lpc' = [lpc EXCEPT ![w] = "assign"]
    /\ UNCHANGED <<pool, owner, left, pending, toPush, stopFlag>>

\* assignImageToGroup: lock_guard on processMutex
ThreadLockProcess(w) ==
    /\ Acquire(w, "assign", "processLocked", "processMutex")
    /\ UNCHANGED <<pool, left, pending, toPush, stopFlag>>

\* end of the block, processedImages++
ThreadProcessLocked(w) ==
    /\ lpc[w] = "processLocked"
    /\ owner' = Unlock(owner, "processMutex")
    /\ left' = [left EXCEPT ![w] = @ - 1]
    /\ lpc' = [lpc EXCEPT ![w] = "loop"]
    /\ UNCHANGED <<pool, pending, toPush, stopFlag>>

\* mutant: the loop of printThread does not look at the stop flag
PrintCheckIgnoresStop ==
    /\ lpc[ReporterId] = "check"
    /\ lpc' = [lpc EXCEPT ![ReporterId] = "sleep"]
    /\ UNCHANGED <<pool, owner, left, pending, toPush, stopFlag>>

\* printThread: while (running), sleep_for
PrintCheck ==
    /\ lpc[ReporterId] = "check"
    /\ lpc' = [lpc EXCEPT ![ReporterId] = IF stopFlag THEN "exited" ELSE "sleep"]
    /\ UNCHANGED <<pool, owner, left, pending, toPush, stopFlag>>

\* printThread: lock_guard on coutMutex
PrintLockCout ==
    /\ Acquire(ReporterId, "sleep", "renderLocked", "coutMutex")
    /\ UNCHANGED <<pool, left, pending, toPush, stopFlag>>

\* the render, end of the block
PrintRenderLocked ==
    /\ lpc[ReporterId] = "renderLocked"
    /\ owner' = Unlock(owner, "coutMutex")
    /\ lpc' = [lpc EXCEPT ![ReporterId] = "check"]
    /\ UNCHANGED <<pool, left, pending, toPush, stopFlag>>

\* ---- the joins

\* the join loop returns when every worker has ended
MainJoinWorkers ==
    /\ lpc[MainId] = "join"
    /\ \A w \in WorkerIds : lpc[w] = "exited"
    /\ lpc' = [lpc EXCEPT ![MainId] = IF pool = "grouper" THEN "stop" ELSE "done"]
    /\ UNCHANGED <<pool, owner, left, pending, toPush, stopFlag>>

\* processImages: running = false
MainStop ==
    /\ lpc[MainId] = "stop"
    /\ stopFlag' = TRUE
    /\ lpc' = [lpc EXCEPT ![MainId] = "joinPrint"]
    /\ UNCHANGED <<pool, owner, left, pending, toPush>>

\* processImages: printThread.join()
MainJoinPrint ==
    /\ lpc[MainId] = "joinPrint"
    /\ lpc[ReporterId] = "exited"
    /\ lpc' = [lpc EXCEPT ![MainId] = "done"]
    /\ UNCHANGED <<pool, owner, left, pending, toPush, stopFlag>>

\* no pool is followed
LocksIdle ==
    /\ pool = "none"
    /\ owner = [m \in Mutexes |-> NoOwner]
    /\ lpc = <<>>
    /\ left = <<>>
    /\ pending = 0
    /\ toPush = 0
    /\ stopFlag = FALSE

\* scanFolder before its first push over 1..LockItems paths, or processImages
\* before its threads are started, every worker with a chunk of at most
\* LockItems images
InitLocks ==
    /\ pool \in {"validator", "grouper"}
    /\ owner = [m \in Mutexes |-> NoOwner]
    /\ lpc = [th \in ThreadIds |->
                 IF th = MainId THEN (IF pool = "validator" THEN "push" ELSE "spawn")
                 ELSE "unstarted"]
    /\ left \in [WorkerIds -> 0..LockItems]
    /\ (pool = "validator" => left = [w \in WorkerIds |-> 0])
    /\ pending = 0
    /\ toPush \in 1..LockItems
    /\ (pool = "grouper" => toPush = 1)
    /\ stopFlag = FALSE

----------------------------------------------------------------------------
\* grouper: createGroupFoldersMoveOrCopyFiles

\* the entries the catalogs handed to the move or copy are made of
MoverPaths == {1, 2, 6, 7, 10}

\* the catalog positions of the images of group g, in catalog order
GroupMembers(imgs, g) ==
    SelectSeq([i \in 1..Len(imgs) |-> i], LAMBDA i : imgs[i].assignedGroup = g)

\* groupedImages, flattened: the images with a group, group after group and
\* in catalog order inside a group (the std::map orders the groups by name;
\* each group writes to a folder of its own)
RECURSIVE GroupedImages(_, _)
GroupedImages(imgs, g) ==
    IF g >= NumGroups THEN <<>>
    ELSE GroupMembers(imgs, g) \o GroupedImages(imgs, g + 1)

\* destPath = groupPath + "/" + image->filename
GroupDestPath(img) == <<img.assignedGroup, Filename(img.path)>>

\* the files under outputPath after a file with the content of `path` has
\* been written to dest: copy_file with overwrite_existing and rename both
\* replace a file that is there
WriteFile(files, dest, path) ==
    {f \in files : <<f[1], f[2]>> # dest} \cup {<<dest[1], dest[2], path>>}

\* create_directories(outputPath), whose filesystem_error ends the function
MoverStart ==
    /\ mvpc = "start"
    /\ \E created \in BOOLEAN :
          IF created
          THEN mvpc' = "loop" /\ UNCHANGED moveFailed
          ELSE mvpc' = "done" /\ moveFailed' = TRUE
    /\ UNCHANGED <<moveAction, moveIndex, outFiles, moveSrc>>

\* one image of the loops of lines 548-584: copy_file or rename, whose
\* filesystem_error is caught inside the loop
MoverOne ==
    /\ mvpc = "loop"
    /\ IF moveIndex < Len(GroupedImages(images, 0))
       THEN LET img == images[GroupedImages(images, 0)[moveIndex + 1]] IN
            /\ \E outcome \in {"done", "error"} :
                  IF outcome = "done" /\ img.path \in moveSrc
                  THEN /\ outFiles' = WriteFile(outFiles, GroupDestPath(img), img.path)
                       /\ moveSrc' = IF moveAction = "MOVE" THEN moveSrc \ {img.path}
                                                            ELSE moveSrc
                       /\ UNCHANGED moveFailed
                  ELSE /\ moveFailed' = TRUE
                       /\ UNCHANGED <<outFiles, moveSrc>>
            /\ moveIndex' = moveIndex + 1
            /\ UNCHANGED mvpc
       ELSE /\ mvpc' = "done"
            /\ UNCHANGED <<moveIndex, outFiles, moveSrc, moveFailed>>
    /\ UNCHANGED moveAction

\* createGroupFoldersMoveOrCopyFiles is not running
MoverIdle ==
    /\ mvpc = "idle"
    /\ moveAction = "COPY"
    /\ moveIndex = 0
    /\ outFiles = {}
    /\ moveSrc = {}
    /\ moveFailed = FALSE

\* the image cv::imread could load has been through assignImageToGroup
Classified(imageInfo) ==
    IF FilePool[imageInfo.path].decode = "ok" THEN assignImageToGroup(imageInfo)
    ELSE imageInfo

\* main after processImages, about to call createGroupFoldersMoveOrCopyFiles
\* with COPY or MOVE on an empty output folder
InitMover ==
    /\ folderExists = TRUE
    /\ folder \in Listings(MoverPaths)
    /\ images = [i \in 1..Len(MakeStructs(folder)) |-> Classified(MakeStructs(folder)[i])]
    /\ gpc = "processed"
    /\ counter = [g \in GroupIds |->
                     Cardinality({i \in 1..Len(images) : images[i].assignedGroup = g})]
    /\ processedImages = Cardinality({i \in 1..Len(images) : images[i].assignedGroup # NoGroup})
    /\ hardware = 1
    /\ numThreads = 1
    /\ chunkSize = Len(images)
    /\ threads = <<>>
    /\ gT = 0
    /\ gJoined = 0
    /\ gExit = "running"
    /\ running = FALSE
    /\ rpc = "done"
    /\ shown = NoRender
    /\ shownAfterStop = FALSE
    /\ cursorHidden = TRUE
    /\ mvpc = "start"
    /\ moveAction \in {"COPY", "MOVE"}
    /\ moveIndex = 0
    /\ outFiles = {}
    /\ moveSrc = Range(folder)
    /\ moveFailed = FALSE

----------------------------------------------------------------------------
\* bucket sizes the iterator is constructed over
BucketSizes ==
    {sz \in [BucketIds -> 0..MaxItems] :
        sz[0] + sz[1] + sz[2] + sz[3] + sz[4] + sz[5] <= MaxItems}

\* items are numbered bucket after bucket
FirstItem(sz, b) ==
    1 + (IF b > 0 THEN sz[0] ELSE 0) + (IF b > 1 THEN sz[1] ELSE 0)
      + (IF b > 2 THEN sz[2] ELSE 0) + (IF b > 3 THEN sz[3] ELSE 0)
      + (IF b > 4 THEN sz[4] ELSE 0)

Members(sz, b) == [i \in 1..sz[b] |-> FirstItem(sz, b) + i - 1]

\* BucketIterator(buckets): copies the buckets, zeroes the cursors, shuffles each
InitSampler ==
    /\ \E sz \in BucketSizes :
       \E p0 \in Perms(Members(sz, 0)), p1 \in Perms(Members(sz, 1)),
          p2 \in Perms(Members(sz, 2)), p3 \in Perms(Members(sz, 3)),
          p4 \in Perms(Members(sz, 4)), p5 \in Perms(Members(sz, 5)) :
          shuffledBuckets = [b \in BucketIds |-> <<p0, p1, p2, p3, p4, p5>>[b + 1]]
    /\ currentIndices = [b \in BucketIds |-> 0]
    /\ lastUsedBucket = NoBucket
    /\ targetBucket = 0
    /\ chosenBucket = 0
    /\ result = NoItem
    /\ status = "constructed"
    /\ cycle = <<>>
    /\ NoFolder
    /\ ValidatorIdle
    /\ QueueIdle
    /\ PrintIdle
    /\ LocksIdle /\ MoverIdle
    /\ ActionsIdle
    /\ GrouperIdle
    /\ SelectIdle

NextSampler ==
    \E target \in BucketIds :
        getNext(target)
            /\ UNCHANGED <<folderVars, validatorVars, queueVars, actionVars, grouperVars,
                           printVars, lockVars, moverVars, selectVars>>

SpecSampler == InitSampler /\ [][NextSampler]_vars

\* the iterator before it is constructed
SamplerIdle ==
    /\ shuffledBuckets = [b \in BucketIds |-> <<>>]
    /\ currentIndices = [b \in BucketIds |-> 0]
    /\ lastUsedBucket = NoBucket
    /\ targetBucket = 0
    /\ chosenBucket = 0
    /\ result = NoItem
    /\ status = "constructed"
    /\ cycle = <<>>

InitValidatorRun ==
    InitValidator /\ QueueIdle /\ PrintIdle /\ LocksIdle /\ MoverIdle /\ ActionsIdle /\ SamplerIdle /\ GrouperIdle /\ SelectIdle

\* what a step of the validator leaves alone
ValidatorFrame ==
    UNCHANGED <<samplerVars, folderVars, queueVars, actionVars, grouperVars, printVars, lockVars, moverVars,
                selectVars>>

NextValidator ==
    \/ ScanFolder /\ ValidatorFrame
    \/ SpawnWorker /\ ValidatorFrame
    \/ JoinWorker /\ ValidatorFrame
    \/ \E w \in 1..m_NumThreads : WorkerPop(w) /\ ValidatorFrame
    \/ \E w \in 1..m_NumThreads : WorkerStore(w) /\ ValidatorFrame
    \/ \E w \in 1..m_NumThreads : WorkerCount(w) /\ ValidatorFrame
    \/ Summary /\ ValidatorFrame

SpecValidator == InitValidatorRun /\ [][NextValidator]_vars

InitActionsRun == InitActions /\ QueueIdle /\ PrintIdle /\ LocksIdle /\ MoverIdle /\ SamplerIdle /\ GrouperIdle /\ SelectIdle

\* what a file action of the validator leaves alone
ActionsFrame ==
    UNCHANGED <<samplerVars, folderVars, queueVars, grouperVars, printVars, lockVars, moverVars, selectVars>>

NextActions ==
    \/ ChooseAction /\ ActionsFrame
    \/ DeleteBegin /\ ActionsFrame
    \/ DeleteOne /\ ActionsFrame
    \/ MoveBegin /\ ActionsFrame
    \/ MoveOne /\ ActionsFrame

SpecActions == InitActionsRun /\ [][NextActions]_vars

InitSelectRun ==
    /\ InitSelect
    /\ SamplerIdle /\ NoFolder /\ ValidatorIdle /\ QueueIdle /\ PrintIdle /\ LocksIdle /\ MoverIdle /\ ActionsIdle /\ GrouperIdle

\* what darkscore-select leaves alone
SelectFrame ==
    UNCHANGED <<folderVars, validatorVars, queueVars, actionVars, grouperVars, printVars, lockVars, moverVars>>

\* the validator with nothing but its queue in use
InitQueueRun ==
    /\ InitQueue
    /\ NoFolder /\ ValidatorIdle /\ ActionsIdle /\ SamplerIdle /\ GrouperIdle /\ SelectIdle
    /\ PrintIdle
    /\ LocksIdle /\ MoverIdle

\* what a call on the queue leaves alone
QueueFrame ==
    /\ UNCHANGED <<vpc, imageFiles, m_TotalCount, m_Results, m_ProcessedCount,
                   m_NumThreads, workers, spawned, joined, m_ValidCount,
                   m_CorruptedCount, vExit>>
    /\ UNCHANGED <<samplerVars, folderVars, actionVars, grouperVars, printVars, lockVars, moverVars, selectVars>>

NextQueue ==
    \/ QPush /\ QueueFrame
    \/ \E c \in 1..NumCallers : QPopCall(c) /\ QueueFrame
    \/ \E c \in 1..NumCallers : QWake(c) /\ QueueFrame
    \/ \E c \in 1..NumCallers : QTimeout(c) /\ QueueFrame
    \/ \E c \in 1..NumCallers : QAgain(c) /\ QueueFrame

SpecQueue == InitQueueRun /\ [][NextQueue]_vars

NextSelect ==
    \/ Start /\ SelectFrame
    \/ LoadBuckets /\ SelectFrame
    \/ SingleExecution /\ SelectFrame
    \/ EnterLoop /\ SelectFrame
    \/ LoopIteration /\ SelectFrame
    \/ Interrupt /\ SelectFrame

SpecSelect == InitSelectRun /\ [][NextSelect]_vars

\* the fallback block of main's single execution mode (lines 482-501) on a
\* given target bucket, then the draw of an item and the return
MainFallbackSearch ==
    /\ spc = "select"
    /\ \E target \in BucketIds :
          LET bucket == MainFallbackLoop(mainBuckets, target, 0)
          IN  /\ mainTarget' = target
              /\ mainChosenBucket' = bucket
              /\ IF mainBuckets[bucket] = <<>>
                 THEN /\ sExit' = "exit_1"
                      /\ invokedExit' = "exit_1"
                      /\ UNCHANGED mainChosen
                 ELSE /\ \E k \in 1..Len(mainBuckets[bucket]) : mainChosen' = mainBuckets[bucket][k]
                      /\ sExit' = "exit_0"
                      /\ invokedExit' = "exit_0"
    /\ spc' = "exited"
    /\ UNCHANGED <<inputOpens, inputLines, isLoop, isDaemon, stdinRaw, mainBuckets, hour>>
    /\ UNCHANGED samplerVars

\* one getNext call on a BucketIterator constructed over the same buckets
IteratorSearch ==
    /\ status = "constructed"
    /\ \E target \in BucketIds : getNext(target)
    /\ UNCHANGED selectVars

\* the image a bucket holds in the runs that compare the two searches
BucketImage(b) ==
    [filePath |-> <<"a">>, score |-> [neg |-> FALSE, num |-> 1, den |-> 1]]

\* every occupancy of the six buckets, handed to main's single execution
\* mode and to the constructor of a BucketIterator
InitFallback ==
    /\ \E occupied \in [BucketIds -> BOOLEAN] :
          mainBuckets = [b \in BucketIds |-> IF occupied[b] THEN <<BucketImage(b)>> ELSE <<>>]
    /\ shuffledBuckets = mainBuckets
    /\ currentIndices = [b \in BucketIds |-> 0]
    /\ lastUsedBucket = NoBucket
    /\ targetBucket = 0
    /\ chosenBucket = 0
    /\ result = NoItem
    /\ status = "constructed"
    /\ cycle = <<>>
    /\ isLoop = FALSE
    /\ isDaemon = FALSE
    /\ inputOpens = TRUE
    /\ inputLines = <<>>
    /\ spc = "select"
    /\ invokedExit = "running"
    /\ stdinRaw = FALSE
    /\ hour = NoHour
    /\ mainTarget = 0
    /\ mainChosenBucket = 0
    /\ mainChosen = NoChosen
    /\ sExit = "running"

InitFallbackRun ==
    /\ InitFallback
    /\ NoFolder /\ ValidatorIdle /\ QueueIdle /\ PrintIdle /\ LocksIdle /\ MoverIdle /\ ActionsIdle
    /\ GrouperIdle

NextFallback ==
    \/ MainFallbackSearch /\ SelectFrame
    \/ IteratorSearch /\ SelectFrame

SpecFallback == InitFallbackRun /\ [][NextFallback]_vars

InitLoadRun ==
    /\ InitLoad
    /\ SamplerIdle /\ NoFolder /\ ValidatorIdle /\ QueueIdle /\ PrintIdle /\ LocksIdle /\ MoverIdle /\ ActionsIdle
    /\ GrouperIdle

NextLoad ==
    \/ Start /\ SelectFrame
    \/ LoadBuckets /\ SelectFrame
    \/ SingleExecution /\ SelectFrame

SpecLoad == InitLoadRun /\ [][NextLoad]_vars

InitGrouperRun ==
    InitGrouper /\ SamplerIdle /\ ValidatorIdle /\ QueueIdle /\ PrintIdle /\ LocksIdle /\ MoverIdle /\ ActionsIdle /\ SelectIdle

\* what a step of the grouper leaves alone
GrouperFrame ==
    UNCHANGED <<samplerVars, folderVars, validatorVars, queueVars, actionVars, printVars, lockVars, moverVars,
                selectVars>>

NextGrouper ==
    \/ GScan /\ GrouperFrame
    \/ GSpawn /\ GrouperFrame
    \/ GJoin /\ GrouperFrame
    \/ \E th \in 1..Len(threads) : GLoad(th) /\ GrouperFrame
    \/ \E th \in 1..Len(threads) : GCounterRead(th) /\ GrouperFrame
    \/ \E th \in 1..Len(threads) : GCounterWrite(th) /\ GrouperFrame
    \/ \E th \in 1..Len(threads) : GCount(th) /\ GrouperFrame
    \/ GStop /\ GrouperFrame
    \/ GJoinPrint /\ GrouperFrame
    \/ RCheck /\ GrouperFrame
    \/ RTick /\ GrouperFrame
    \/ GInterrupt /\ GrouperFrame
    \/ GFinish /\ GrouperFrame

SpecGrouper == InitGrouperRun /\ [][NextGrouper]_vars

InitSpawnRun ==
    /\ InitSpawn
    /\ folderExists = TRUE /\ folder = <<>>
    /\ SamplerIdle /\ ValidatorIdle /\ QueueIdle /\ PrintIdle /\ LocksIdle /\ MoverIdle /\ ActionsIdle /\ SelectIdle

NextSpawn ==
    \/ GSpawn /\ GrouperFrame

SpecSpawn == InitSpawnRun /\ [][NextSpawn]_vars

InitMoverRun ==
    /\ InitMover
    /\ SamplerIdle /\ ValidatorIdle /\ QueueIdle /\ PrintIdle /\ LocksIdle /\ ActionsIdle
    /\ SelectIdle

MoverFrame ==
    UNCHANGED <<samplerVars, folderVars, validatorVars, queueVars, actionVars, grouperVars,
                printVars, lockVars, selectVars>>

NextMover ==
    \/ MoverStart /\ MoverFrame
    \/ MoverOne /\ MoverFrame

SpecMover == InitMoverRun /\ [][NextMover]_vars

InitLocksRun ==
    /\ InitLocks
    /\ MoverIdle
    /\ SamplerIdle /\ NoFolder /\ ValidatorIdle /\ QueueIdle /\ PrintIdle /\ ActionsIdle
    /\ GrouperIdle /\ SelectIdle

LocksFrame ==
    UNCHANGED <<samplerVars, folderVars, validatorVars, queueVars, actionVars, grouperVars,
                printVars, selectVars, moverVars>>

NextLocks ==
    \/ MainLockPush /\ LocksFrame
    \/ MainPushLocked /\ LocksFrame
    \/ MainSpawnWorkers /\ LocksFrame
    \/ \E w \in WorkerIds : WorkerLockPop(w) /\ LocksFrame
    \/ \E w \in WorkerIds : WorkerPopLocked(w) /\ LocksFrame
    \/ \E w \in WorkerIds : WorkerWaitTimeout(w) /\ LocksFrame
    \/ \E w \in WorkerIds : WorkerTimedOut(w) /\ LocksFrame
    \/ \E w \in WorkerIds : WorkerDecode(w) /\ LocksFrame
    \/ \E w \in WorkerIds : WorkerLockResults(w) /\ LocksFrame
    \/ \E w \in WorkerIds : WorkerStoreLocked(w) /\ LocksFrame
    \/ MainSpawnThreads /\ LocksFrame
    \/ \E w \in WorkerIds : ThreadLoop(w) /\ LocksFrame
    \/ \E w \in WorkerIds : ThreadDecode(w) /\ LocksFrame
    \/ \E w \in WorkerIds : ThreadLockCout(w) /\ LocksFrame
    \/ \E w \in WorkerIds : ThreadReportLocked(w) /\ LocksFrame
    \/ \E w \in WorkerIds : ThreadClassify(w) /\ LocksFrame
    \/ \E w \in WorkerIds : ThreadLockProcess(w) /\ LocksFrame
    \/ \E w \in WorkerIds : ThreadProcessLocked(w) /\ LocksFrame
    \/ PrintCheck /\ LocksFrame
    \/ PrintLockCout /\ LocksFrame
    \/ PrintRenderLocked /\ LocksFrame
    \/ MainJoinWorkers /\ LocksFrame
    \/ MainStop /\ LocksFrame
    \/ MainJoinPrint /\ LocksFrame

SpecLocks == InitLocksRun /\ [][NextLocks]_vars

\* the steps of worker w, of main and of printThread
WorkerStep(w) ==
    \/ WorkerLockPop(w) /\ LocksFrame
    \/ WorkerPopLocked(w) /\ LocksFrame
    \/ WorkerWaitTimeout(w) /\ LocksFrame
    \/ WorkerTimedOut(w) /\ LocksFrame
    \/ WorkerDecode(w) /\ LocksFrame
    \/ WorkerLockResults(w) /\ LocksFrame
    \/ WorkerStoreLocked(w) /\ LocksFrame
    \/ ThreadLoop(w) /\ LocksFrame
    \/ ThreadDecode(w) /\ LocksFrame
    \/ ThreadLockCout(w) /\ LocksFrame
    \/ ThreadReportLocked(w) /\ LocksFrame
    \/ ThreadClassify(w) /\ LocksFrame
    \/ ThreadLockProcess(w) /\ LocksFrame
    \/ ThreadProcessLocked(w) /\ LocksFrame

MainStep ==
    \/ MainLockPush /\ LocksFrame
    \/ MainPushLocked /\ LocksFrame
    \/ MainSpawnWorkers /\ LocksFrame
    \/ MainSpawnThreads /\ LocksFrame
    \/ MainJoinWorkers /\ LocksFrame
    \/ MainStop /\ LocksFrame
    \/ MainJoinPrint /\ LocksFrame

PrintStep ==
    \/ PrintCheck /\ LocksFrame
    \/ PrintLockCout /\ LocksFrame
    \/ PrintRenderLocked /\ LocksFrame

\* the scheduler runs every std::thread that can step: cv::imread and the
\* classification return, wait_for times out after 100 ms, sleep_for returns.
\* A worker waiting for coutMutex gets it: printThread holds it for one render
\* and then sleeps for 300 ms or more with the mutex free.
LocksFairness ==
    /\ WF_vars(MainStep)
    /\ WF_vars(PrintStep)
    /\ \A w \in WorkerIds : WF_vars(WorkerStep(w))
    /\ \A w \in WorkerIds : SF_vars(ThreadLockCout(w) /\ LocksFrame)

FairSpecLocks == SpecLocks /\ LocksFairness

InitPrintRun ==
    /\ InitPrint
    /\ SamplerIdle /\ NoFolder /\ ValidatorIdle /\ QueueIdle /\ ActionsIdle /\ GrouperIdle
    /\ SelectIdle /\ LocksIdle /\ MoverIdle

PrintFrame ==
    UNCHANGED <<samplerVars, folderVars, validatorVars, queueVars, actionVars, grouperVars,
                lockVars, moverVars, selectVars>>

NextPrint ==
    \/ RenderTick /\ PrintFrame
    \/ ReporterStop /\ PrintFrame
    \/ LastTick /\ PrintFrame
    \/ LoopExit /\ PrintFrame

SpecPrint == InitPrintRun /\ [][NextPrint]_vars

----------------------------------------------------------------------------
\* Claims about the BucketIterator (checked under SpecSampler)

AllEmpty(buckets) == \A b \in BucketIds : buckets[b] = <<>>

\* the non-empty bucket nearest to target, the upper one on a tie
NearestNonEmpty(buckets, target) ==
    LET nonEmpty == {b \in BucketIds : buckets[b] # <<>>}
        dist     == CHOOSE d \in 0..NumBuckets :
                        /\ \E b \in nonEmpty : Abs(b - target) = d
                        /\ \A b \in nonEmpty : Abs(b - target) >= d
    IN  IF target + dist \in nonEmpty THEN target + dist ELSE target - dist

\* C1: N consecutive getNext calls on a bucket of N items, counted from a call
\* that read at cursor 0, return N pairwise distinct items, the members of
\* the bucket.
C1_Exhaustiveness ==
    (status = "ok" /\ Len(cycle) = Len(shuffledBuckets[chosenBucket]))
        => /\ IsInjective(cycle)
           /\ Range(cycle) = Range(shuffledBuckets[chosenBucket])

\* C2: a successful getNext(target) reads from bucket target when it is not
\* empty, and otherwise from the nearest non-empty bucket, target+o before
\* target-o; with only bucket 2 non-empty and target 0 it returns the item of
\* bucket 2.
C2_FallbackCorrectness ==
    status = "ok" =>
        /\ chosenBucket = NearestNonEmpty(shuffledBuckets, targetBucket)
        /\ (shuffledBuckets[targetBucket] # <<>> => chosenBucket = targetBucket)
        /\ result \in Range(shuffledBuckets[chosenBucket])
        /\ lastUsedBucket = chosenBucket
        /\ ((targetBucket = 0 /\ \A b \in BucketIds : (shuffledBuckets[b] # <<>>) <=> (b = 2))
               => chosenBucket = 2)

\* the case of the example: only bucket 2 holds an item (A), target 0
C2_Witness ==
    /\ status = "ok"
    /\ targetBucket = 0
    /\ \A b \in BucketIds : Len(shuffledBuckets[b]) = (IF b = 2 THEN 1 ELSE 0)
    /\ chosenBucket = 2
    /\ result = shuffledBuckets[2][1]

\* a tie: target 2 is empty, buckets 1 and 3 are not, bucket 3 is read
C2_WitnessTie ==
    /\ status = "ok"
    /\ targetBucket = 2
    /\ shuffledBuckets[2] = <<>>
    /\ shuffledBuckets[1] # <<>>
    /\ shuffledBuckets[3] # <<>>
    /\ chosenBucket = 3

\* C8: getNext raises the exhausted error exactly when all six buckets are
\* empty, and a call that raises changes no cursor, no bucket order and not
\* lastUsedBucket.
C8_Exhaustion ==
    [][/\ (status' = "exhausted") <=> AllEmpty(shuffledBuckets)
       /\ (status' = "exhausted") =>
              UNCHANGED <<shuffledBuckets, currentIndices, lastUsedBucket>>]_vars

\* a call with target 5 raised the error
C8_Witness ==
    /\ status = "exhausted"
    /\ targetBucket = 5
    /\ AllEmpty(shuffledBuckets)

----------------------------------------------------------------------------
\* Claims about the validator pool (checked under SpecValidator)

ResultPaths == [i \in 1..Len(m_Results) |-> m_Results[i].filePath]

\* C3: when scanFolder returns after a run with 1, 2 or 8 workers, m_Results
\* holds exactly one result for every catalog path: none twice, none missing.
C3_AggregationCompleteness ==
    (vpc \in {"summary", "prompt"} /\ m_NumThreads \in {1, 2, 8})
        => /\ Len(m_Results) = Len(imageFiles)
           /\ IsInjective(ResultPaths)
           /\ Range(ResultPaths) = Range(imageFiles)

\* eight workers have shared a catalog of two files
C3_Witness ==
    /\ vpc = "summary"
    /\ m_NumThreads = 8
    /\ Len(imageFiles) = 2
    /\ Len(m_Results) = 2
    /\ joined = 8

\* C4: every pushed item is returned by at most one successful pop, so no
\* file is held by two workers and no file has two results; after the pool
\* every popped file has exactly one result.
C4_ExactlyOnceDelivery ==
    /\ IsInjective(popped)
    /\ Range(popped) \subseteq Range(imageFiles)
    /\ \A v, w \in 1..m_NumThreads :
          (v # w /\ workers[v].imagePath # NoFile)
              => workers[v].imagePath # workers[w].imagePath
    /\ IsInjective(ResultPaths)
    /\ Range(ResultPaths) \subseteq Range(popped)
    /\ (vpc \in {"summary", "prompt"} => Range(ResultPaths) = Range(popped))

\* two workers hold one popped file each at the same time
C4_Witness ==
    /\ Len(popped) = 2
    /\ \E v, w \in 1..m_NumThreads :
          /\ v # w
          /\ workers[v].pc = "store"
          /\ workers[w].pc = "store"

\* the validator half of C5: a file the decoder fails on gets a result with
\* isValid = FALSE, and no worker step ends the process
ValidatorDecodeFailureIsData ==
    /\ (vExit = "abort" => ScanThrows(folder))
    /\ \A i \in 1..Len(m_Results) :
          m_Results[i].isValid <=> FilePool[m_Results[i].filePath].decode = "ok"
    /\ ((vpc \in {"summary", "prompt"} /\ m_NumThreads > 0)
           => \A i \in 1..Len(imageFiles) :
                  \E j \in 1..Len(m_Results) : m_Results[j].filePath = imageFiles[i])

\* the grouper half of C5: a decode failure leaves the image without a group,
\* the thread goes on to its next image, and the process is not terminated
GrouperDecodeFailureIsData ==
    /\ (gExit = "abort" => MakeStructsThrows(folder))
    /\ (gpc = "processed" =>
           \A i \in 1..Len(images) :
               (images[i].assignedGroup = NoGroup)
                   <=> (FilePool[images[i].path].decode # "ok"))

\* C5: a decode failure (an empty image or an exception of the decoder) is
\* recorded as a failed result and the worker goes on; it never terminates
\* the worker thread or the process, in the validator and in the grouper.
C5_DecodeFailureIsData ==
    ValidatorDecodeFailureIsData /\ GrouperDecodeFailureIsData

\* C6: no increment of a group counter is lost: once the pool has completed,
\* each group's counter equals the number of images assigned to the group.
C6_CountersMatchAssignments ==
    gpc = "processed" =>
        \A g \in GroupIds :
            counter[g] = Cardinality({i \in 1..Len(images) : images[i].assignedGroup = g})

\* a name that ends in one of the supported extensions, whatever its case
HasSupportedExtension(name) ==
    \E ext \in m_supportedExtensions :
        /\ Len(name) >= Len(ext)
        /\ \A i \in 1..Len(ext) : ToLower(name[Len(name) - Len(ext) + i]) = ext[i]

NoSupportedFile(entries) ==
    \A i \in 1..Len(entries) :
        ~(FilePool[entries[i]].regular /\ HasSupportedExtension(Filename(entries[i])))

\* C10: when the folder exists and holds no supported image file, the tool
\* exits with code 1 and starts no worker, in the validator and in the grouper.
C10_EmptyScanExitsOne ==
    /\ (vpc = "exited" /\ folderExists /\ NoSupportedFile(folder))
           => (vExit = "exit_1" /\ spawned = 0)
    /\ (gpc = "exited" /\ folderExists /\ NoSupportedFile(folder))
           => (gExit = "exit_1" /\ threads = <<>>)

\* the part of C10 the grouper keeps: an empty catalog ends in exit(1)
GrouperEmptyCatalogExitsOne ==
    (gpc = "exited" /\ folderExists /\ ~MakeStructsThrows(folder) /\ images = <<>>)
        => (gExit = "exit_1" /\ threads = <<>>)


\* the name the n-th retry of a collision gives: stem, "_", n, extension
Suffixed(name, n) == Stem(name) \o <<"_">> \o to_string(n) \o Extension(name)

\* the renames done so far went to distinct names the folder did not hold
NothingOverwritten ==
    moves # <<>> =>
        /\ quarantine = moves[1].taken \cup {moves[i].dest : i \in 1..Len(moves)}
        /\ Cardinality(quarantine) = Cardinality(moves[1].taken) + Len(moves)

\* C7: moveCorruptedFiles never renames a file onto a name the quarantine
\* folder already holds; the destination is the file's own name when that is
\* free, and otherwise the first free name among stem_1, stem_2, ... taken in
\* order; nothing that was in the folder is lost, and two corrupted files both
\* named x.jpg moved into an empty folder end up as x.jpg and x_1.jpg
C7_CollisionSafeQuarantine ==
    /\ \A i \in 1..Len(moves) :
          LET m    == moves[i]
              name == Filename(m.src)
          IN  /\ m.dest \notin m.taken
              /\ \/ m.dest = name
                 \/ \E n \in 1..Cardinality(m.taken) :
                       /\ name \in m.taken
                       /\ \A k \in 1..(n - 1) : Suffixed(name, k) \in m.taken
                       /\ m.dest = Suffixed(name, n)
    /\ NothingOverwritten
    /\ (/\ Len(moves) = 2
        /\ moves[1].taken = {}
        /\ Filename(moves[1].src) = Name_x_jpg
        /\ Filename(moves[2].src) = Name_x_jpg)
       => /\ moves[1].dest = Name_x_jpg
          /\ moves[2].dest = Name_x_1_jpg
          /\ quarantine = {Name_x_jpg, Name_x_1_jpg}

\* two different corrupted files named x.jpg have been moved into a folder
\* that was empty
C7_Witness ==
    /\ vpc = "exited"
    /\ choice = 2
    /\ Len(moves) = 2
    /\ moves[1].src # moves[2].src
    /\ moves[1].taken = {}
    /\ Filename(moves[1].src) = Name_x_jpg
    /\ Filename(moves[2].src) = Name_x_jpg
    /\ quarantine = {Name_x_jpg, Name_x_1_jpg}

\* a file named x.jpg has been moved into a folder holding x.jpg and x_1.jpg
C7_WitnessSecondRetry ==
    \E i \in 1..Len(moves) :
        /\ Filename(moves[i].src) = Name_x_jpg
        /\ {Name_x_jpg, Name_x_1_jpg} \subseteq moves[i].taken
        /\ moves[i].dest = <<"x", "_", "2", ".", "j", "p", "g">>


\* the file is a header line followed by the rows a.jpg 0.95, b.jpg 0.05 and
\* c.jpg 0.5 in some order
IsClaimCsv ==
    /\ inputOpens
    /\ Len(inputLines) = 4
    /\ inputLines[1] = Line_header
    /\ {inputLines[i] : i \in 2..4} = {Line_a, Line_b, Line_c}

Path_a == <<"a", ".", "j", "p", "g">>

Path_c == <<"c", ".", "j", "p", "g">>

C9_WitnessNight ==
    /\ spc = "exited"
    /\ IsClaimCsv
    /\ hour = 21
    /\ mainChosen.filePath = Path_a


\* no selection has been made and no item has been handed to a command
NothingSelected == mainChosen = NoChosen /\ result = NoItem /\ status = "constructed"

\* C11: when the CSV file cannot be opened, the process the user started
\* exits with code 1, and no selection has been made by then; in single
\* execution mode, in loop mode and in daemon mode
C11_UnreadableInputExitsOne ==
    (~inputOpens /\ invokedExit \in {"exit_0", "exit_1"})
        => (invokedExit = "exit_1" /\ NothingSelected)

\* the part of C11 that holds: without --daemon the process exits with 1,
\* and in every mode the process that runs main ends with 1 before a selection
UnreadableInputEndsMain ==
    (~inputOpens /\ spc = "exited")
        => /\ sExit = "exit_1"
           /\ NothingSelected
           /\ ~isDaemon => invokedExit = "exit_1"


\* the grouper half of C12: the pool is sized by the hardware parallelism, 4
\* when it is reported as 0, and every decodable image of the catalog has
\* been given a group when the pool has completed
GrouperPoolSize ==
    gpc \in {"join", "processed"} =>
        /\ numThreads = (IF hardware = 0 THEN 4 ELSE hardware)
        /\ numThreads >= 1
        /\ Len(threads) >= 1
        /\ gpc = "processed" =>
               \A i \in 1..Len(images) :
                   FilePool[images[i].path].decode = "ok"
                       => images[i].assignedGroup # NoGroup

\* the validator half of C12: a non-empty catalog is processed by at least
\* one worker
ValidatorPoolSize ==
    (vpc \in {"summary", "prompt"} /\ imageFiles # <<>>) =>
        /\ m_NumThreads >= 1
        /\ spawned >= 1
        /\ Len(m_Results) = Len(imageFiles)

\* C12: every pool runs at least one worker, as many as the hardware
\* parallelism or 4 when that is reported as 0, in the grouper and in the
\* validator, so that a non-empty catalog is always processed
C12_PoolSize == ValidatorPoolSize /\ GrouperPoolSize


\* the part of C13 that holds: the stop flag is set only after every worker
\* thread has been joined, and printThread exits only after the flag is set
StopAfterJoin ==
    /\ (rpc # "idle" /\ ~running) =>
           /\ gJoined = Len(threads)
           /\ \A th \in 1..Len(threads) : threads[th].pc = "exited"
    /\ rpc = "done" => ~running

\* C13: the stop flag is set only after every worker has been joined, and
\* when printThread has exited its last render was one that started after the
\* flag was set, so that it shows the final processed count
C13_ReporterShutdown ==
    /\ StopAfterJoin
    /\ rpc = "done" =>
           /\ shown # NoRender
           /\ shownAfterStop
           /\ shown = processedImages


\* in loop and daemon mode getNext never fails: main has returned 1 before
\* the loop when every bucket is empty, and the buckets never change
LoopNeverExhausted ==
    spc \in {"loop", "killed"} => status # "exhausted"

\* once entered, the loop is left only by a signal
LoopKeepsIterating ==
    [][spc = "loop" => spc' \in {"loop", "killed"}]_vars


\* main has called loadBuckets on a file that opened
Loaded ==
    /\ inputOpens
    /\ \/ spc \in {"select", "enter_loop", "loop"}
       \/ spc = "exited" /\ ~isDaemon

\* the positions of the delimiter in a line
Delims(line) == {i \in 1..Len(line) : line[i] = ","}

\* the position of the first delimiter after position i, or the end
NextDelim(line, i) ==
    IF \E j \in Delims(line) : j > i
    THEN CHOOSE j \in Delims(line) : j > i /\ \A k \in Delims(line) : k > i => j <= k
    ELSE Len(line) + 1

\* the text of the first and of the second field of a line
PathText(line) == SubSeq(line, 1, NextDelim(line, 0) - 1)

ScoreText(line) ==
    SubSeq(line, NextDelim(line, 0) + 1, NextDelim(line, NextDelim(line, 0)) - 1)

\* a line has a second field: a delimiter that is not its last character
HasScoreField(line) == NextDelim(line, 0) < Len(line)

\* a text parses as a number: after blanks and an optional sign comes a
\* digit, or a point followed by a digit
ParsesAsNumber(text) ==
    \E k \in 1..Len(text) :
        /\ \A j \in 1..(k - 1) :
              \/ text[j] \in {" ", "\t"}
              \/ j = k - 1 /\ text[j] \in {"+", "-"}
        /\ \/ text[k] \in Range(Digits)
           \/ text[k] = "." /\ k < Len(text) /\ text[k + 1] \in Range(Digits)

WellFormedRow(line) == HasScoreField(line) /\ ParsesAsNumber(ScoreText(line))

\* the paths of the records of all buckets
LoadedPaths ==
    UNION {{mainBuckets[b][k].filePath : k \in 1..Len(mainBuckets[b])} : b \in BucketIds}

NumLoaded == Len(mainBuckets[0]) + Len(mainBuckets[1]) + Len(mainBuckets[2])
             + Len(mainBuckets[3]) + Len(mainBuckets[4]) + Len(mainBuckets[5])

\* C15: loadBuckets ignores the first line, skips the rows with fewer than
\* two fields and the rows whose score does not parse as a number, and puts
\* every other row in a bucket, also when it follows a skipped row
C15_CsvLoading ==
    Loaded =>
        /\ \A i \in 2..Len(inputLines) :
              WellFormedRow(inputLines[i]) <=> PathText(inputLines[i]) \in LoadedPaths
        /\ inputLines # <<>> => PathText(inputLines[1]) \notin LoadedPaths
        /\ NumLoaded = Cardinality({i \in 2..Len(inputLines) : WellFormedRow(inputLines[i])})

\* a row with one field and a row with an unparseable score precede the row
\* of a.jpg, which has been loaded
C15_Witness ==
    /\ Loaded
    /\ Len(inputLines) = 4
    /\ {inputLines[2], inputLines[3]} = {Line_d, Line_e}
    /\ inputLines[4] = Line_a
    /\ LoadedPaths = {Path_a}


\* a score, held as an exact fraction, lies in [0,1]
InUnitInterval(score) ==
    /\ score.num <= score.den
    /\ score.neg => score.num = 0

\* the darkness scores loadBuckets has put in the buckets lie in [0,1]
LoadedScoresInRange ==
    \A b \in BucketIds :
        \A k \in 1..Len(mainBuckets[b]) : InUnitInterval(mainBuckets[b][k].score)

\* the group scores of the classified images, in hundredths, lie in [0,1]
GroupScoresInRange ==
    \A i \in 1..Len(images) :
        images[i].assignedGroup # NoGroup
            => (0 <= images[i].groupScore /\ images[i].groupScore <= 100)

\* C16: every score held in a record lies in [0,1]: the darkness score of
\* every row loadBuckets has put in a bucket and the groupScore of every
\* classified image
C16_ScoreRange == LoadedScoresInRange /\ GroupScoresInRange


\* the part of C17 that holds: the delete loop ends only after the last file,
\* and a failed fs::rename does not end the move loop
DeleteLoopCompletes ==
    [][(vpc = "deleteLoop" /\ vpc' = "exited") => actIndex = Len(corruptedFiles)]_vars

\* C17: a batch action of the validator, once in its loop, goes on after a
\* filesystem failure on one file: the loop ends only when no file is left
\* after the one it dealt with last
C17_PartialFailureTolerance ==
    [][(vpc \in {"deleteLoop", "moveLoop"} /\ vpc' = "exited")
           => actIndex >= Len(corruptedFiles) - 1]_vars


\* the grouper half of C18: handleCtrlC shows the cursor before exit(1)
GrouperInterruptShowsCursor == gpc = "interrupted" => ~cursorHidden

\* a grouper run has been interrupted while the cursor was hidden
GrouperInterruptedWhileHidden ==
    gpc = "interrupted" /\ running /\ Len(threads) > 0

\* C18: a tool that an interrupt signal ends while it has changed the terminal
\* has restored the terminal: the input mode of darkscore-select in loop mode,
\* the cursor of grouper
C18_InterruptCleanup ==
    /\ spc = "killed" => ~stdinRaw
    /\ GrouperInterruptShowsCursor


\* a pop call returns an item exactly when the queue it looks at under the
\* lock is not empty, the item is the front of that queue, and a call comes
\* back empty-handed only after waiting for the timeout
PopContract ==
    \A c \in DOMAIN callers :
        callers[c].pc = "returned" =>
            /\ callers[c].found <=> ~callers[c].sawEmpty
            /\ callers[c].found => callers[c].item = callers[c].sawFront
            /\ ~callers[c].found => callers[c].waited

\* a validator worker that has left its loop leaves an empty queue behind,
\* every queued path having been claimed by some worker
WorkerLeavesOnEmpty ==
    \A w \in DOMAIN workers :
        workers[w].pc = "exited" => m_queue = <<>> /\ Len(popped) = m_TotalCount

C19_WitnessTimeout ==
    \E c \in DOMAIN callers :
        callers[c].pc = "returned" /\ callers[c].waited /\ ~callers[c].found

\* a validator worker left its loop after paths had been claimed
WorkerLeftAfterClaims ==
    \E w \in DOMAIN workers : workers[w].pc = "exited" /\ popped # <<>>

\* images per second of a run whose renders so far all saw the same number of
\* images, at least one, time_delta milliseconds after the render before
SteadyRate == Q(1000 * firstStep[1], time_delta)

SteadyRun == firstStep # <<>> /\ steady /\ firstStep[1] >= 1

----------------------------------------------------------------------------
\* Claims about single getNext calls (checked under SpecSampler)

\* C21: a successful getNext returns the element that was at the cursor of the
\* chosen bucket when it was read (for a call that stays in its bucket, the
\* element there before the call; for a call that switches, the first element
\* of the reshuffled bucket) and advances the cursor by one, also when the
\* call reads the last position and the bucket is reshuffled for the wrap
C21_ReadAndAdvance ==
    [][status' = "ok" =>
          LET b    == chosenBucket'
              idx  == ReadCursor(b)
              size == Len(shuffledBuckets[b])
          IN  /\ currentIndices'[b] = (idx + 1) % size
              /\ b = lastUsedBucket => result' = shuffledBuckets[b][idx + 1]
              /\ b # lastUsedBucket => result' = shuffledBuckets'[b][1]]_vars

\* the part of C21 that the code keeps: the cursor moves on by one, and a call
\* that does not wrap returns the element it read
ReadAndAdvanceWithoutWrap ==
    [][status' = "ok" =>
          LET b    == chosenBucket'
              idx  == ReadCursor(b)
              size == Len(shuffledBuckets[b])
          IN  /\ currentIndices'[b] = (idx + 1) % size
              /\ (b = lastUsedBucket /\ idx + 1 < size)
                     => result' = shuffledBuckets[b][idx + 1]
              /\ b # lastUsedBucket => result' = shuffledBuckets'[b][1]]_vars

\* two successful calls in a row chose the same bucket, which holds at least
\* two items
SameBucketTwice ==
    /\ status = "ok"
    /\ status' = "ok"
    /\ chosenBucket' = chosenBucket
    /\ Len(shuffledBuckets[chosenBucket]) >= 2

\* C22: two consecutive getNext calls that choose the same bucket of at least
\* two items never return the same item, also when the first of them wraps
\* the cursor and reshuffles the bucket
C22_NoImmediateRepeats ==
    [][SameBucketTwice => result' # result]_vars

\* what the code keeps of C22: the two items differ unless the second call is
\* the one that reads the last position and reshuffles
NoRepeatUnlessSecondWraps ==
    [][(SameBucketTwice /\ currentIndices'[chosenBucket] # 0) => result' # result]_vars

\* C23: a getNext call that chooses a bucket other than lastUsedBucket (the
\* first call included) reads at cursor 0 of a reshuffled order of that
\* bucket, so that the cursor is 1 afterwards (0 in a bucket of one item) and
\* the item returned is the first of the new order; it sets lastUsedBucket to
\* the chosen bucket. A call that chooses lastUsedBucket again reads at the
\* cursor it finds and leaves the order alone unless it wraps
C23_BucketSwitchReshuffle ==
    [][status' = "ok" =>
          LET b    == chosenBucket'
              size == Len(shuffledBuckets[b])
          IN  /\ lastUsedBucket' = b
              /\ Range(shuffledBuckets'[b]) = Range(shuffledBuckets[b])
              /\ Len(shuffledBuckets'[b]) = size
              /\ b # lastUsedBucket =>
                    /\ currentIndices'[b] = (IF size = 1 THEN 0 ELSE 1)
                    /\ result' = shuffledBuckets'[b][1]
              /\ b = lastUsedBucket =>
                    /\ currentIndices'[b] = (currentIndices[b] + 1) % size
                    /\ currentIndices[b] + 1 < size =>
                          /\ shuffledBuckets'[b] = shuffledBuckets[b]
                          /\ result' = shuffledBuckets[b][currentIndices[b] + 1]]_vars

\* the last call chose a bucket of two items that it had not read the call
\* before, next to a non-empty bucket, and read it at cursor 0
C23_Witness ==
    /\ status = "ok"
    /\ Len(shuffledBuckets[chosenBucket]) = 2
    /\ currentIndices[chosenBucket] = 1
    /\ Len(cycle) = 1
    /\ \E b \in BucketIds :
          /\ b # chosenBucket
          /\ Len(shuffledBuckets[b]) = 1
          /\ targetBucket = chosenBucket

----------------------------------------------------------------------------
\* Claims about the darkness partition (checked under SpecLoad)

\* the range of scores the claim gives for bucket b, on exact fractions
AboveTenths(score, t) == ~score.neg /\ score.num * 10 > t * score.den

InBucketRange(score, b) ==
    CASE b = 0 -> AboveTenths(score, 9)
      [] b = 1 -> AboveTenths(score, 8) /\ ~AboveTenths(score, 9)
      [] b = 2 -> AboveTenths(score, 6) /\ ~AboveTenths(score, 8)
      [] b = 3 -> AboveTenths(score, 4) /\ ~AboveTenths(score, 6)
      [] b = 4 -> AboveTenths(score, 2) /\ ~AboveTenths(score, 4)
      [] b = 5 -> ~AboveTenths(score, 2)

\* the places <<bucket, position>> where a path has been loaded
PlacesOf(path) ==
    {p \in BucketIds \X (1..NumLoaded) :
        p[2] <= Len(mainBuckets[p[1]]) /\ mainBuckets[p[1]][p[2]].filePath = path}

----------------------------------------------------------------------------
\* Claims about the static partition (checked under SpecSpawn)

\* the indices of the chunk handed to the th-th started thread
ChunkOf(th) == threads[th].i .. (threads[th].end - 1)

\* C25: when the spawn loop has ended, the chunks [t*c, min(t*c + c, total))
\* with c = ceil(total / N) handed to the started threads are non-empty,
\* pairwise disjoint and cover the indices 0 .. total-1, and at most N threads
\* have been started, so that every image record belongs to exactly one thread
C25_StaticPartition ==
    gpc = "join" =>
        /\ Len(threads) <= numThreads
        /\ chunkSize * numThreads >= Len(images)
        /\ chunkSize * numThreads < Len(images) + numThreads
        /\ \A th \in 1..Len(threads) :
              /\ threads[th].i = (th - 1) * chunkSize
              /\ ChunkOf(th) # {}
        /\ \A th1, th2 \in 1..Len(threads) : th1 # th2 => ChunkOf(th1) \cap ChunkOf(th2) = {}
        /\ \A i \in 0..(Len(images) - 1) :
              Cardinality({th \in 1..Len(threads) : i \in ChunkOf(th)}) = 1

\* five records and four threads: chunks of two, the loop breaks after three
\* threads and the last chunk holds one record
C25_Witness ==
    /\ gpc = "join"
    /\ Len(images) = 5
    /\ numThreads = 4
    /\ Len(threads) = 3
    /\ ChunkOf(3) = {4}

----------------------------------------------------------------------------
\* Claims about the render loop of printThread (checked under SpecPrint)

\* the last n elements of a sequence, all of them when it is shorter
LastOf(seq, n) ==
    IF Len(seq) <= n THEN seq ELSE SubSeq(seq, Len(seq) - n + 1, Len(seq))

\* C26: a tick appends a rate sample exactly when the processed count has
\* advanced since the tick before; the window then is the last 10 samples in
\* the order they came, the oldest being dropped first, and never holds more
\* than 10; a tick without progress leaves window and moving average as they
\* were
C26_MovingAverageWindow ==
    [][/\ Len(speed_samples') <= 10
       /\ current' > current =>
             speed_samples' =
                 LastOf(Append(speed_samples, Q(1000 * (current' - current), time_delta)), 10)
       /\ current' = current =>
             /\ speed_samples' = speed_samples
             /\ avg_speed' = avg_speed]_vars

\* the window is full, has dropped its oldest sample, and holds samples that
\* are not all the same
C26_Witness ==
    /\ dropped
    /\ Len(speed_samples) = 10
    /\ speed_samples[1] # speed_samples[10]

\* the last tick was one without progress, after at least one sample and with
\* work left
C26_WitnessIdleTick ==
    /\ speed_samples # <<>>
    /\ current < totalImages
    /\ firstStep # <<0>>
    /\ ~steady
    /\ prev_eta = eta

\* at least one render has happened
Rendered == firstStep # <<>>

\* (total - current) / movingAvgRate, on exact fractions
EtaValue == <<(totalImages - current) * avg_speed[2], avg_speed[1]>>

\* C27: the last render reported an ETA exactly when the moving average was
\* above 0, and the ETA was (total - current) / movingAvgRate
C27_EtaReporting ==
    Rendered =>
        /\ (eta # NoEta) <=> (avg_speed[1] > 0)
        /\ eta # NoEta => eta[1] * EtaValue[2] = EtaValue[1] * eta[2]

\* C27, amended: the last render reported an ETA exactly when the moving
\* average was above 0 and images were left to process, and the ETA was
\* (total - current) / movingAvgRate
C27_EtaReportingWhileUnfinished ==
    Rendered =>
        /\ (eta # NoEta) <=> (avg_speed[1] > 0 /\ current < totalImages)
        /\ eta # NoEta => eta[1] * EtaValue[2] = EtaValue[1] * eta[2]

\* an ETA was reported from a window of two different samples
C27_Witness ==
    /\ Rendered
    /\ eta # NoEta
    /\ Len(speed_samples) = 2
    /\ speed_samples[1] # speed_samples[2]

\* no ETA was reported by a first render that saw no progress
C27_WitnessNoRate ==
    /\ firstStep = <<0>>
    /\ speed_samples = <<>>
    /\ eta = NoEta

\* no ETA was reported by the render that saw the last image done
C27_WitnessFinished ==
    /\ Rendered
    /\ current = totalImages
    /\ avg_speed[1] > 0
    /\ eta = NoEta

----------------------------------------------------------------------------
\* Claims about the mutexes (checked under SpecLocks)

\* the mutexes a thread holds
HeldBy(th) == {m \in Mutexes : owner[m] = th}

\* the pool has work in progress
PoolRunning == pool # "none" /\ lpc[MainId] # "done"

\* C28: in both pools no thread holds two mutexes at once, no thread holds a
\* mutex while it decodes or classifies an image, and as long as the pool has
\* not finished some thread can take a step, whatever the interleaving
C28_LockDiscipline ==
    /\ \A th \in DOMAIN lpc : Cardinality(HeldBy(th)) <= 1
    /\ \A th \in DOMAIN lpc : lpc[th] \in {"decode", "classify"} => HeldBy(th) = {}
    /\ PoolRunning => ENABLED NextLocks

\* grouper: a worker holds processMutex and printThread holds coutMutex while
\* the other worker decodes
C28_Witness ==
    /\ pool = "grouper"
    /\ owner["coutMutex"] = ReporterId
    /\ \E w1, w2 \in WorkerIds :
          /\ owner["processMutex"] = w1
          /\ lpc[w2] = "decode"

\* validator: one worker holds m_mutex, the other m_ResultsMutex
C28_WitnessValidator ==
    /\ pool = "validator"
    /\ \E w1, w2 \in WorkerIds :
          /\ w1 # w2
          /\ owner["m_mutex"] = w1
          /\ owner["m_ResultsMutex"] = w2

\* a thread waits for a mutex another thread holds
SomeThreadBlocked ==
    \/ \E w \in WorkerIds : lpc[w] = "report" /\ owner["coutMutex"] = ReporterId
    \/ \E w \in WorkerIds : lpc[w] = "pop" /\ owner["m_mutex"] \in WorkerIds \ {w}

\* the scores calculateGroupScore gives the image at position i of the catalog
ScoresOf(i) == FilePool[images[i].path].scores

\* the highest score among the groups other than Miscellaneous
TopScore(s) ==
    CHOOSE m \in {s[g] : g \in 1..(NumGroups - 1)} :
        \A g \in 1..(NumGroups - 1) : s[g] <= m

\* the group the rule names: the lowest-indexed group holding the highest
\* score when that score is at least 0.3, Miscellaneous (0) otherwise
RuleGroup(s) ==
    IF TopScore(s) < 30 THEN 0
    ELSE CHOOSE g \in 1..(NumGroups - 1) :
             /\ s[g] = TopScore(s)
             /\ \A h \in 1..(g - 1) : s[h] # TopScore(s)

\* the catalog position thread th is working on
ImageOf(th) == threads[th].i + 1

\* C29: every classified image is assigned the lowest-indexed group with the
\* highest score when that score is at least 0.3 and Miscellaneous when it is
\* below; each classification executes counter++ exactly once, on the counter
\* of the group the image was assigned to: the value loaded is that counter's,
\* the value stored is the loaded one plus one, no other counter changes, and
\* the thread moves on to the next image only after that store.
C29_GroupAssignmentRule ==
    [][/\ \A i \in 1..Len(images') :
             images'[i].assignedGroup # NoGroup
                 => /\ images'[i].assignedGroup = RuleGroup(ScoresOf(i))
                    /\ images'[i].groupScore = TopScore(ScoresOf(i))
       /\ \A th \in DOMAIN threads :
             /\ (threads[th].pc = "load" /\ threads'[th].pc = "counter_read")
                    => /\ threads'[th].best = images'[ImageOf(th)].assignedGroup
                       /\ threads'[th].best # NoGroup
                       /\ counter' = counter
             /\ (threads[th].pc = "counter_read" /\ threads'[th].pc # "counter_read")
                    => /\ threads'[th].pc = "counter_write"
                       /\ threads'[th].reg = counter[images[ImageOf(th)].assignedGroup]
                       /\ counter' = counter
             /\ (threads[th].pc = "counter_write" /\ threads'[th].pc # "counter_write")
                    => /\ threads'[th].pc = "count"
                       /\ counter' = [counter EXCEPT
                              ![images[ImageOf(th)].assignedGroup] = threads[th].reg + 1]
             /\ (threads[th].pc = "count" /\ threads'[th].pc # "count")
                    => /\ threads'[th].i = threads[th].i + 1
                       /\ counter' = counter
       /\ counter' # counter
             => \E th \in DOMAIN threads :
                    threads[th].pc = "counter_write" /\ threads'[th].pc = "count"
      ]_vars

\* the pool has classified an image whose best score is exactly 0.3 (kept by
\* its group) and one whose best score is below 0.3 (Miscellaneous), and
\* both counters were incremented
C29_Witness ==
    /\ gpc = "processed"
    /\ \E j, k \in 1..Len(images) :
          /\ TopScore(ScoresOf(j)) = 30 /\ images[j].assignedGroup = 1
          /\ TopScore(ScoresOf(k)) = 29 /\ images[k].assignedGroup = 0
    /\ counter[1] = 1
    /\ counter[0] = 1

\* the pool has classified an image whose two best groups tie: the lower index
\* took it
C29_WitnessTie ==
    /\ gpc = "processed"
    /\ \E i \in 1..Len(images) :
          /\ ScoresOf(i)[1] = ScoresOf(i)[2]
          /\ ScoresOf(i)[1] = TopScore(ScoresOf(i))
          /\ images[i].assignedGroup = 1
          /\ counter[1] >= 1

\* every worker of the pool has ended
WorkersExited == \A w \in WorkerIds : lpc[w] = "exited"

\* scanFolder or processImages is past its last join
BatchDone == lpc[MainId] = "done"

\* printThread, once the stop flag is set, does not start another tick: its
\* next test of the flag ends the loop
NoTickAfterStop ==
    [][(stopFlag /\ lpc[ReporterId] = "check")
           => lpc'[ReporterId] \in {"check", "exited"}]_vars

\* C30: with every thread scheduled and every decode and classification
\* returning, every worker eventually exits, the joins of main return (main
\* gets past scanFolder's and processImages' last join and stays there), and
\* printThread, after the stop flag is set, starts no further tick and exits.
C30_BatchTermination ==
    /\ <>WorkersExited
    /\ <>[]BatchDone
    /\ NoTickAfterStop
    /\ (stopFlag ~> lpc[ReporterId] = "exited")
    /\ [](BatchDone => WorkersExited /\ (pool = "grouper" => lpc[ReporterId] = "exited"))

\* processImages has returned: the workers worked through their chunks,
\* the stop flag was set and printThread was joined
C30_Witness ==
    /\ pool = "grouper"
    /\ BatchDone
    /\ stopFlag
    /\ WorkersExited
    /\ \A w \in WorkerIds : left[w] = 0
    /\ lpc[ReporterId] = "exited"

\* scanFolder has returned: the queue is drained and every worker left on a
\* timed-out pop
C30_WitnessValidator ==
    /\ pool = "validator"
    /\ BatchDone
    /\ WorkersExited
    /\ pending = 0 /\ toPush = 0

\* the stop flag is set while printThread sleeps in a tick it had begun
StopDuringTick == stopFlag /\ lpc[ReporterId] \in {"sleep", "renderLocked"}

\* the items pushed so far, in push order (QPush numbers them)
Pushed == [i \in 1..pushCount |-> i]

\* s is a prefix of t
IsPrefix(s, t) == Len(s) <= Len(t) /\ \A i \in 1..Len(s) : s[i] = t[i]

\* C31: the items removed from the ThreadSafeQueue, in the order the pops held
\* the lock, are a prefix of the pushed items in push order, and the queue
\* holds the rest in push order.
C31_FifoOrder ==
    pushCount > 0 =>
        /\ IsPrefix(popped, Pushed)
        /\ popped \o m_queue = Pushed

\* two items went through the queue while more were pushed behind them, one
\* of them to a caller that had been waiting when it was pushed
C31_Witness ==
    /\ Len(popped) >= 2
    /\ Len(m_queue) >= 1
    /\ \E c \in DOMAIN callers :
          callers[c].found /\ callers[c].waited /\ callers[c].item >= 2

\* the part of C32 about the validator pool
ValidatorProgressCounter ==
    /\ m_ProcessedCount' >= m_ProcessedCount
    /\ m_ProcessedCount' <= m_TotalCount'
    /\ m_ProcessedCount' <= Len(m_Results')
    /\ (vpc' = "summary" /\ joined' = m_NumThreads') => m_ProcessedCount' = m_TotalCount'

\* the grouper's workers have all been joined
GrouperJoined == gpc \in {"stop", "joinPrint", "processed"}

\* the part of C32 about the grouper pool
GrouperProgressCounter ==
    /\ processedImages' >= processedImages
    /\ processedImages' <= Len(images')
    /\ GrouperJoined' => processedImages' = Len(images')

\* C32: in both pools the processed counter never decreases and never
\* exceeds the total; in the validator it never exceeds the number of results
\* recorded; once all the workers have been joined it equals the number of
\* catalog items.
C32_ProgressCounter ==
    [][ValidatorProgressCounter /\ GrouperProgressCounter]_vars

\* what the grouper's counter does keep: it never decreases, never exceeds
\* the total, and after the joins it is the number of images that were given
\* a group
GrouperCounterBounded ==
    [][/\ processedImages' >= processedImages
       /\ processedImages' <= Len(images')
       /\ GrouperJoined' =>
             processedImages' =
                 Cardinality({i \in 1..Len(images') : images'[i].assignedGroup # NoGroup})
      ]_vars

\* what the validator's counter does keep, and its value after the joins of a
\* pool that has a worker
ValidatorCounterBounded ==
    [][/\ m_ProcessedCount' >= m_ProcessedCount
       /\ m_ProcessedCount' <= m_TotalCount'
       /\ m_ProcessedCount' <= Len(m_Results')
       /\ (vpc' = "summary" /\ joined' = m_NumThreads' /\ m_NumThreads' > 0)
              => m_ProcessedCount' = m_TotalCount'
      ]_vars

\* the pool is through with a catalog that holds an image cv::imread could
\* not load
JoinedBelowTotal == GrouperJoined /\ processedImages < Len(images)

\* C33: after construction and after every getNext call, successful or
\* failed, the cursor of every non-empty bucket is at least 0 and below the
\* bucket's size, the bucket the call settled on is one of 0..5, and every
\* index the fallback search of a call with a target in 0..5 uses on the
\* buckets lies in 0..5.
C33_CursorInvariant ==
    /\ DOMAIN currentIndices = BucketIds
    /\ \A b \in BucketIds :
          shuffledBuckets[b] # <<>>
              => (0 <= currentIndices[b] /\ currentIndices[b] < Len(shuffledBuckets[b]))
    /\ chosenBucket \in BucketIds
    /\ lastUsedBucket \in BucketIds \cup {NoBucket}
    /\ \A t \in BucketIds : FallbackReads(shuffledBuckets, t, 0) \subseteq BucketIds

\* a call that fell back from an empty target has left the cursor of a bucket
\* of two or more items on the bucket's last position
C33_Witness ==
    /\ status = "ok"
    /\ chosenBucket # targetBucket
    /\ Len(shuffledBuckets[chosenBucket]) >= 2
    /\ currentIndices[chosenBucket] = Len(shuffledBuckets[chosenBucket]) - 1

\* a call on six empty buckets has failed after looking at all of them
C33_WitnessFailed ==
    /\ status = "exhausted"
    /\ FallbackReads(shuffledBuckets, targetBucket, 0) = BucketIds

\* the items of a bucket (items are distinct)
ItemsOf(bucket) == {bucket[i] : i \in 1..Len(bucket)}

\* C34: a getNext call leaves every bucket with the items it had (the chosen
\* bucket is at most reordered), and leaves the order and the cursor of every
\* bucket other than the chosen one as they were.
C34_SamplerFrame ==
    [][\A b \in BucketIds :
          /\ Len(shuffledBuckets'[b]) = Len(shuffledBuckets[b])
          /\ ItemsOf(shuffledBuckets'[b]) = ItemsOf(shuffledBuckets[b])
          /\ b # chosenBucket' =>
                /\ shuffledBuckets'[b] = shuffledBuckets[b]
                /\ currentIndices'[b] = currentIndices[b]
      ]_vars

\* a call has read from one bucket while another bucket, used before, stands
\* in the middle of its pass
C34_Witness ==
    /\ status = "ok"
    /\ \E b \in BucketIds :
          /\ b # chosenBucket
          /\ Len(shuffledBuckets[b]) >= 2
          /\ currentIndices[b] > 0

\* both searches have run on the same buckets with the same target
BothSearched ==
    spc = "exited" /\ status # "constructed" /\ mainTarget = targetBucket

\* C35: on the same occupancy of the six buckets and the same target in 0..5,
\* the fallback search of main's single execution mode settles on the bucket
\* the fallback search of getNext settles on, and it raises the exhaustion
\* error exactly when getNext does.
C35_FallbackEquivalence ==
    BothSearched =>
        /\ mainChosenBucket = chosenBucket
        /\ (sExit = "exit_1") <=> (status = "exhausted")
        /\ (sExit = "exit_0") <=> (status = "ok")

\* both searches fell back from the empty bucket 5 to a lower bucket
C35_Witness ==
    /\ BothSearched
    /\ mainTarget = 5
    /\ mainChosenBucket < 5
    /\ status = "ok"

\* both searches raised the error on six empty buckets
C35_WitnessExhausted ==
    /\ BothSearched
    /\ status = "exhausted"
    /\ sExit = "exit_1"

\* m_Results holds a result for file f that marks it invalid / valid
RecordedInvalid(f) ==
    \E i \in 1..Len(m_Results) : m_Results[i].filePath = f /\ ~m_Results[i].isValid

RecordedValid(f) ==
    \E i \in 1..Len(m_Results) : m_Results[i].filePath = f /\ m_Results[i].isValid

\* the files the validator has taken away from where they were scanned
Moved == {moves[i].src : i \in 1..Len(moves)}

\* what C36 says of every file but for the confirmation: only files recorded
\* as invalid are deleted (under choice 1) or moved (under choice 2), a file
\* recorded as valid stays in place, and any other choice changes no file
OnlyInvalidFilesTouched ==
    /\ \A f \in deleted : RecordedInvalid(f) /\ choice = 1
    /\ \A f \in Moved : RecordedInvalid(f) /\ choice = 2
    /\ srcExists = Range(folder) \ (deleted \cup Moved)
    /\ \A f \in Range(folder) : RecordedValid(f) => f \in srcExists
    /\ choice \notin {1, 2} => (deleted = {} /\ moves = <<>>)

\* C36: a file is deleted only if its recorded result is invalid and the user
\* answered 'y' or 'Y' at the confirmation prompt; a file is moved only if its
\* recorded result is invalid; a file recorded as valid is never deleted or
\* moved; choice 3 or an unknown choice changes no file.
C36_ValidatorActionFrame ==
    /\ OnlyInvalidFilesTouched
    /\ deleted # {} => response \in {"y", "Y"}

\* the confirmation as the code keeps it: files are deleted only after the
\* answer y or Y, or after an extraction that stored nothing in `response`
DeletedAfterYesOrNoAnswer ==
    /\ OnlyInvalidFilesTouched
    /\ deleted # {} => response \in {"y", "Y", "eof"}
    /\ vpc = "deleteLoop" => response \in {"y", "Y", "eof"}

\* a corrupted file was deleted although the input ended before an answer
DeletedWithoutAnswer == deleted # {} /\ response = "eof"

\* the file of image img is in the folder of its group, with its content
InGroupFolder(img) ==
    <<img.assignedGroup, Filename(img.path), img.path>> \in outFiles

\* createGroupFoldersMoveOrCopyFiles has returned and caught no error
MoverDone == mvpc = "done" /\ ~moveFailed

\* C37: after createGroupFoldersMoveOrCopyFiles with MOVE or COPY (and no
\* filesystem error), every image that was assigned to a group is present in
\* that group's folder; two images of the same group with the same filename
\* from different sub-directories are both there.
C37_MoveCopyKeepsEveryImage ==
    MoverDone =>
        \A i \in 1..Len(images) :
            images[i].assignedGroup # NoGroup => InGroupFolder(images[i])

\* two images of the catalog have the same group and the same filename
SameNameSameGroup ==
    \E i, j \in 1..Len(images) :
        /\ i # j
        /\ images[i].assignedGroup # NoGroup
        /\ GroupDestPath(images[i]) = GroupDestPath(images[j])

\* what the function keeps: without such a pair every image with a group is
\* in the folder of its group, and the images without a group are left alone
KeepsImagesWithDistinctNames ==
    /\ (MoverDone /\ ~SameNameSameGroup) =>
           \A i \in 1..Len(images) :
               images[i].assignedGroup # NoGroup => InGroupFolder(images[i])
    /\ \A i \in 1..Len(images) :
           images[i].assignedGroup = NoGroup => images[i].path \in moveSrc

\* a MOVE has ended without error and an image is neither where it was
\* scanned nor in the output folder
ImageLost ==
    /\ MoverDone
    /\ moveAction = "MOVE"
    /\ \E i \in 1..Len(images) :
          /\ images[i].path \notin moveSrc
          /\ \A f \in outFiles : f[3] # images[i].path

\* the scanned folder holds a regular file whose name has no '.'
HoldsNameWithoutDot ==
    \E i \in 1..Len(folder) :
        FilePool[folder[i]].regular /\ FindLastOf(Filename(folder[i]), ".") = npos

\* C38: a scan of a directory holding a regular file whose name has no '.'
\* completes normally: isSupportedFormat raises nothing on that name and
\* gives false, the file is left out of the catalog, and the process is not
\* ended by the scan.
C38_ScanToleratesNoExtension ==
    (folderExists /\ HoldsNameWithoutDot /\ vpc \notin {"idle", "scanFolder"}) =>
        /\ \A i \in 1..Len(folder) :
              FindLastOf(Filename(folder[i]), ".") = npos
                  => /\ ~isSupportedFormatThrows(Filename(folder[i]))
                     /\ ~utils_isSupportedFormatThrows(Filename(folder[i]))
                     /\ folder[i] \notin Range(imageFiles)
        /\ vExit # "abort"

\* what the scan does keep: a file whose name has a '.' and an extension that
\* is not supported is left out of the catalog without any error, and the
\* process is ended by the scan only on a name without '.'
ScanToleratesOtherExtensions ==
    /\ (vExit = "abort") => HoldsNameWithoutDot
    /\ (vpc \notin {"idle", "scanFolder"} /\ vExit # "abort") =>
           \A i \in 1..Len(folder) :
               (folder[i] \in Range(imageFiles)) <=>
                   (FilePool[folder[i]].regular /\ HasSupportedExtension(Filename(folder[i])))

\* the validator was ended by the scan of a folder holding README
AbortedOnNameWithoutDot == vExit = "abort" /\ HoldsNameWithoutDot /\ imageFiles = <<>>

============================================================================
